---- MODULE Spec2Model ----
(***************************************************************************)
(* Model of the supervision core of proxy-stack-service:                   *)
(*   lib/anti_detect.py    TokenBucketRateLimiter, AntiDetectEngine        *)
(*   lib/health_checker.py HealthChecker                                   *)
(*   lib/utils.py          stop_process_by_pid, PID files                  *)
(*   lib/three_proxy_manager.py, lib/haproxy_manager.py, proxy_stack.py    *)
(* Each component has its own specification (SpecRL, SpecUA, ...) over the  *)
(* shared variables; the variables of the other components stay idle.       *)
(***************************************************************************)
EXTENDS Integers, Sequences, FiniteSets, TLC

(***************************************************************************)
(* Bounds of the model.                                                    *)
(***************************************************************************)
\* time.monotonic() is read in ticks 0..MaxTime
MaxTime == 3
\* tokens are floats in the code; the model counts them in 1/TokenUnit of a token
TokenUnit == 2
\* the values of burst, in tokens
Bursts == {1, 2}
\* the values of rate, in 1/TokenUnit token per tick
Rates == {0, 1, 3}
\* the pool file holds at most MaxLines lines of at most MaxLineLen characters
MaxLines == 2
MaxLineLen == 2
\* failed checks followed in one degradation run
MaxFailures == 5
\* min_healthy_backends ranges over 0..MaxMinHealthy
MaxMinHealthy == 3
\* PIDs range over 1..MaxPid
MaxPid == 1
\* calls of the orchestrator followed
MaxOrchCalls == 1
\* the timeout of stop_process_by_pid, in seconds (its default is 10)
StopTimeout == 1
\* the values of cleanup's max_age, in ticks
MaxAges == {0, 2}
\* allow("") calls followed at one tick
MaxGlobalRun == 3

\* the stop() calls that follow the first call on an orchestrator
MaxStops == 2

\* the signals delivered to one process
MaxSignals == 1

\* the threads that call into one object at once
MaxThreads == 2

\* the turns of the engine's loop that are told apart
MaxCycles == 11

\* the ticks of the clock followed between the calls of the threads
MaxThreadTicks == 1

\* the backends registered with a health checker whose thread is followed
MaxBackends == 2

\* history: the checks and rotations counted after a stop event
MaxSince == 2

\* the default max_age of cleanup(), in ticks
LoopMaxAge == 2

\* the turns of the foreground loop of main() that are followed
MaxTurns == 2

\* "" is the key check_rate_limit passes when per_ip is off
Ips == {"", "a", "b"}

VARIABLES
  \* ---- TokenBucketRateLimiter ----
  rate,        \* self.rate, in 1/TokenUnit token per tick
  burst,       \* self.burst, in tokens
  per_ip,      \* self._per_ip: ip -> [tokens, last]
  now,         \* time.monotonic()
  allowedAt,   \* history: non-empty ip -> tick -> number of allow(ip) calls that returned True
  globalRun,   \* history: allow("") calls that returned True since the clock last moved
  rlRemoved,   \* history: the ips whose bucket some cleanup() has deleted
  \* ---- AntiDetectEngine: User-Agent rotation ----
  ua_pool,     \* self._ua_pool: a sequence of strings (each a sequence of characters)
  current_ua,  \* self._current_ua; <<>> is the empty string
  uaLast,      \* history: the last rotate_user_agent() call: value before, outcome
  \* ---- HealthChecker ----
  hc_backends, \* self._backends: name -> BackendHealth
  min_healthy, \* config.monitoring.alerts.thresholds.min_healthy_backends
  on_alert,    \* self._on_alert is set
  hcRun,       \* history: name -> the current degradation run of the record and its alerts
  \* ---- processes and PID files ----
  procs,       \* the PIDs of the live processes
  pidfile,     \* component -> what its PID file holds
  st,          \* the stop of one component (stop_instance / HAProxyManager.stop) in progress
  sigs,        \* history: the os.kill(pid, 15 | 9) calls <<pid, signal, delivered>> of the stop in progress
  reloaded,    \* history: the last HAProxyManager.reload() call: what it found, did and returned
  locks,       \* lock name -> the thread that holds it, 0 for none
  thr,         \* thread -> the call it is in: operation, step, argument, locals
  last,        \* history: thread -> the call it returned from last
  scene,       \* which calls the threads of this behaviour make
  avail,       \* history: key -> the tokens its bucket had to give when the clock last moved
  foreign,     \* the PIDs whose process, while it lives, belongs to another user: os.kill raises PermissionError
  \* ---- ProxyStackOrchestrator ----
  orch,        \* the call of start() or stop() in progress, and its locals
  config,      \* monitoring.enabled and anti_detect.user_agent_rotation.enabled
  monitoring,  \* self.monitoring: "none", or its server "serving" | "unbound" | "stopped"
  hc_thread,   \* the health checker's loop is running
  ad_thread,   \* the anti-detect engine's loop is running
  stackpid,    \* what proxy-stack.pid holds
  launched,    \* history: the PIDs of the processes the current start() launched
  attempted,   \* history: the steps the current stop() has reached
  reported,    \* history: the steps of the current stop() that reported a failure
  \* ---- the background threads of HealthChecker and AntiDetectEngine ----
  hc_stop,     \* HealthChecker._stop_event is set
  hc_loop,     \* HealthChecker._thread: where _loop stands, and the stop() joining it
  ad_stop,     \* AntiDetectEngine._stop_event is set
  ad_loop,     \* AntiDetectEngine._thread: where _background_loop stands, and its locals
  sinceStop,   \* history: checks and rotations begun since the stop event was last set
  \* ---- main() of proxy_stack.py ----
  main         \* where main() of a `start` command stands, and the signals delivered to it

rlVars == <<rate, burst, per_ip, now, allowedAt, globalRun, rlRemoved>>

uaVars == <<ua_pool, current_ua, uaLast>>

hcVars == <<hc_backends, min_healthy, on_alert, hcRun>>

procVars == <<procs, pidfile, st, sigs>>

reloadVars == <<reloaded, foreign>>

thrVars == <<locks, thr, last, scene, avail>>

\* the variables of the other components
orchVars == <<orch, config, monitoring, hc_thread, ad_thread, stackpid, launched,
              attempted, reported>>

loopVars == <<hc_stop, hc_loop, ad_stop, ad_loop, sinceStop>>

mainVars == <<main>>

\* the variables of the other components
notRL == <<thrVars, uaVars, hcVars, procVars, orchVars, loopVars, reloadVars, mainVars>>
notUA == <<thrVars, rlVars, hcVars, procVars, orchVars, loopVars, reloadVars, mainVars>>
notHC == <<thrVars, rlVars, uaVars, procVars, orchVars, loopVars, reloadVars, mainVars>>
notProc == <<thrVars, rlVars, uaVars, hcVars, orchVars, loopVars, reloadVars, mainVars>>
notOrchMain == <<thrVars, rlVars, uaVars, loopVars, reloadVars>>
notOrch == <<notOrchMain, mainVars>>
notLoops == <<thrVars, procVars, orchVars, reloadVars, mainVars>>
notReload == <<thrVars, rlVars, uaVars, hcVars, orchVars, loopVars, mainVars>>
notThreads == <<procVars, orchVars, loopVars, reloadVars, mainVars>>

Min(a, b) == IF a <= b THEN a ELSE b

(***************************************************************************)
(* TokenBucketRateLimiter                                                  *)
(***************************************************************************)
\* lines 80-84: the stored bucket of a non-empty known ip, else a full bucket
BucketOf(ip) ==
  IF ip # "" /\ ip \in DOMAIN per_ip
  THEN per_ip[ip]
  ELSE [tokens |-> burst * TokenUnit, last |-> now]

RefillNoCap(b) == b.tokens + (now - b.last) * rate

\* lines 87-88: tokens = min(burst, tokens + elapsed * rate)
Refill(b) == Min(burst * TokenUnit, b.tokens + (now - b.last) * rate)

AllowResultStrict(ip) == Refill(BucketOf(ip)) > TokenUnit

\* line 90: tokens >= 1.0
AllowResult(ip) == Refill(BucketOf(ip)) >= TokenUnit

StoredAlwaysSpends(ip) == [tokens |-> Refill(BucketOf(ip)) - TokenUnit, last |-> now]

\* lines 91-97: what allow() writes back for ip
Stored(ip) ==
  IF AllowResult(ip)
  THEN [tokens |-> Refill(BucketOf(ip)) - TokenUnit, last |-> now]
  ELSE [tokens |-> Refill(BucketOf(ip)), last |-> now]

PerIpAfterAllowTouchesAll(ip) ==
  IF ip # ""
  THEN [k \in DOMAIN per_ip \cup {ip} |->
          IF k = ip THEN Stored(ip) ELSE [per_ip[k] EXCEPT !.last = now]]
  ELSE per_ip

\* lines 92-93, 96-97: only a non-empty ip is written to _per_ip
PerIpAfterAllow(ip) ==
  IF ip # ""
  THEN [k \in DOMAIN per_ip \cup {ip} |-> IF k = ip THEN Stored(ip) ELSE per_ip[k]]
  ELSE per_ip

\* allow(ip) at the current tick
Allow(ip) ==
  /\ ip = "" => globalRun < MaxGlobalRun
  /\ per_ip' = PerIpAfterAllow(ip)
  /\ allowedAt' = IF ip # "" /\ AllowResult(ip)
                  THEN [allowedAt EXCEPT ![ip][now] = @ + 1]
                  ELSE allowedAt
  /\ globalRun' = IF ip = "" /\ AllowResult(ip) THEN globalRun + 1 ELSE globalRun
  /\ UNCHANGED <<rate, burst, now, rlRemoved>>
  /\ UNCHANGED notRL

ExpiredAtAge(max_age) == {ip \in DOMAIN per_ip : now - per_ip[ip].last >= max_age}

\* line 104: the ips whose last touch is more than max_age ago
Expired(max_age) == {ip \in DOMAIN per_ip : now - per_ip[ip].last > max_age}

\* line 107: cleanup() returns len(expired)
CleanupResult(max_age) == Cardinality(Expired(max_age))

\* lines 102-107: what cleanup(max_age) does to the limiter
CleanupBuckets(max_age) ==
  /\ per_ip' = [k \in DOMAIN per_ip \ Expired(max_age) |-> per_ip[k]]
  /\ rlRemoved' = rlRemoved \cup Expired(max_age)
  /\ UNCHANGED <<rate, burst, now, allowedAt, globalRun>>

\* cleanup(max_age)
Cleanup(max_age) ==
  /\ CleanupBuckets(max_age)
  /\ UNCHANGED notRL

\* the monotonic clock advances between calls
Tick ==
  /\ now < MaxTime
  /\ now' = now + 1
  /\ globalRun' = 0
  /\ UNCHANGED <<rate, burst, per_ip, allowedAt, rlRemoved>>
  /\ UNCHANGED notRL

\* __init__ (lines 66-73)
InitRL ==
  /\ rate \in Rates
  /\ burst \in Bursts
  /\ per_ip = <<>>
  /\ now = 0
  /\ allowedAt = [ip \in Ips \ {""} |-> [t \in 0..MaxTime |-> 0]]
  /\ globalRun = 0
  /\ rlRemoved = {}

(***************************************************************************)
(* AntiDetectEngine: the User-Agent pool and its rotation                  *)
(***************************************************************************)
\* the characters of a pool file line: blank, comment sign, two letters
Chars == {" ", "#", "a", "b"}

\* BUILTIN_USER_AGENTS (lines 25-55): 19 pairwise distinct strings
BUILTIN_USER_AGENTS ==
  << <<"A">>, <<"B">>, <<"C">>, <<"D">>, <<"E">>, <<"F">>, <<"G">>, <<"H">>, <<"I">>,
     <<"J">>, <<"K">>, <<"L">>, <<"M">>, <<"N">>, <<"O">>, <<"P">>, <<"Q">>, <<"R">>,
     <<"S">> >>

SeqsUpTo(S, n) == UNION {[1..k -> S] : k \in 0..n}

\* the lines a pool file may hold, and the files
Lines == SeqsUpTo(Chars, MaxLineLen)
Files == SeqsUpTo(Lines, MaxLines)

RECURSIVE LStrip(_)
LStrip(line) ==
  IF line # <<>> /\ Head(line) = " " THEN LStrip(Tail(line)) ELSE line

RECURSIVE RStrip(_)
RStrip(line) ==
  IF line # <<>> /\ line[Len(line)] = " "
  THEN RStrip(SubSeq(line, 1, Len(line) - 1))
  ELSE line

\* str.strip()
Strip(line) == LStrip(RStrip(line))

\* line 153: `if line.strip() and not line.startswith("#")`
KeepLine(line) == Strip(line) # <<>> /\ ~(line # <<>> /\ Head(line) = "#")

RECURSIVE LoadPool(_)
\* line 153: [line.strip() for line in f if ...]
LoadPool(file) ==
  IF file = <<>> THEN <<>>
  ELSE (IF KeepLine(Head(file)) THEN <<Strip(Head(file))>> ELSE <<>>)
       \o LoadPool(Tail(file))

\* the members of a sequence
Range(seq) == {seq[i] : i \in 1..Len(seq)}

\* line 174: `ua != self._current_ua`
NotCurrent(ua) == ua # current_ua

\* line 174: pool = [ua for ua in self._ua_pool if ua != self._current_ua]
Candidates == SelectSeq(ua_pool, NotCurrent)

ManyEntriesFromOne == Len(ua_pool) >= 1

ManyEntriesButOne == Len(ua_pool) # 1

\* line 172: `if len(self._ua_pool) > 1`
ManyEntries == Len(ua_pool) > 1

\* line 175: random.choice(pool) raises IndexError on an empty sequence
RotateRaises == ManyEntries /\ Candidates = <<>>

\* lines 172-177: the values rotate_user_agent() may install as current
RotateChoices ==
  IF ManyEntries THEN Range(Candidates)
  ELSE IF Len(ua_pool) = 1 THEN {ua_pool[1]}
  ELSE {current_ua}

\* rotate_user_agent(), returning normally
RotateOk ==
  /\ ~RotateRaises
  /\ \E ua \in RotateChoices :
       /\ current_ua' = ua
       /\ uaLast' = [op |-> "rotate", before |-> current_ua, raised |-> FALSE, ret |-> ua]
  /\ UNCHANGED ua_pool

\* rotate_user_agent(), leaving by the IndexError of random.choice([])
RotateRaise ==
  /\ RotateRaises
  /\ uaLast' = [op |-> "rotate", before |-> current_ua, raised |-> TRUE, ret |-> <<>>]
  /\ UNCHANGED <<ua_pool, current_ua>>

rotate_user_agent ==
  /\ (RotateOk \/ RotateRaise)
  /\ UNCHANGED notUA

\* the pools __init__ may load: the built-in pool (no pool file, or a read
\* error), or the kept lines of a pool file (lines 149-159)
LoadedPools == {BUILTIN_USER_AGENTS} \cup {LoadPool(file) : file \in Files}

\* __init__ (lines 128-145) and _load_user_agents (lines 147-162)
InitUA ==
  /\ ua_pool \in LoadedPools
  /\ current_ua \in (IF ua_pool # <<>> THEN Range(ua_pool) ELSE {<<>>})
  /\ uaLast = [op |-> "none", before |-> <<>>, raised |-> FALSE, ret |-> <<>>]

(***************************************************************************)
(* HealthChecker                                                           *)
(***************************************************************************)
\* config_loader.py line 102: the default number of worker instances
instance_count == 3

\* range(self.cfg.instance_count): the worker instances; get_backend_addresses
\* (three_proxy_manager.py 305-317) names the backend of instance i "3proxy_i"
BackendNames == 0..(instance_count - 1)

\* line 127: the alert fires when consecutive_failures == 3
AlertThreshold == 3

\* BackendHealth (lines 26-39) as register_backends creates it
NewBackend == [http_alive |-> FALSE, socks_alive |-> FALSE, consecutive_failures |-> 0]

\* BackendHealth.is_healthy (lines 41-43)
is_healthy(b) == b.http_alive /\ b.socks_alive

NoRun == [run |-> 0, alerts |-> 0, alertAt |-> 0]

\* register_backends(backends) (lines 62-73): a fresh record for every name given
RegisterBackends(names) ==
  /\ hc_backends' = [n \in DOMAIN hc_backends \cup names |->
                       IF n \in names THEN NewBackend ELSE hc_backends[n]]
  /\ hcRun' = [n \in DOMAIN hc_backends \cup names |->
                 IF n \in names THEN NoRun ELSE hcRun[n]]
  /\ UNCHANGED <<min_healthy, on_alert>>

\* register_backends called on a health checker of its own
register_backends(names) ==
  /\ RegisterBackends(names)
  /\ UNCHANGED notHC

\* set_alert_callback(callback) (lines 75-76), called before the backends are
\* registered
set_alert_callback ==
  /\ hc_backends = <<>>
  /\ on_alert' = TRUE
  /\ UNCHANGED <<hc_backends, min_healthy, hcRun>>
  /\ UNCHANGED notHC

FailuresNoReset(b, http_alive, socks_alive) == b.consecutive_failures + 1

\* lines 122-126: the counter after a check with these probe results
FailuresAfter(b, http_alive, socks_alive) ==
  IF is_healthy([b EXCEPT !.http_alive = http_alive, !.socks_alive = socks_alive])
  THEN 0
  ELSE b.consecutive_failures + 1

FiresAlertFrom(failures) == failures >= AlertThreshold

\* line 127: `if backend.consecutive_failures == 3`
FiresAlert(failures) == failures = AlertThreshold

\* lines 115-126: the record after a check with these probe results
CheckedBackend(b, http_alive, socks_alive) ==
  [b EXCEPT !.http_alive = http_alive,
            !.socks_alive = socks_alive,
            !.consecutive_failures = FailuresAfter(b, http_alive, socks_alive)]

\* lines 127-132, 136-147: _fire_alert calls the callback when one is set and the
\* counter has just reached the threshold
CallbackCalled(b, http_alive, socks_alive) ==
  /\ ~(http_alive /\ socks_alive)
  /\ FiresAlert(CheckedBackend(b, http_alive, socks_alive).consecutive_failures)
  /\ on_alert

\* the degradation run of a record after one more check
RunAfter(r, b, http_alive, socks_alive) ==
  IF http_alive /\ socks_alive
  THEN NoRun
  ELSE [run |-> r.run + 1,
        alerts |-> r.alerts + (IF CallbackCalled(b, http_alive, socks_alive) THEN 1 ELSE 0),
        alertAt |-> IF CallbackCalled(b, http_alive, socks_alive) THEN r.run + 1 ELSE r.alertAt]

\* lines 115-132: what _check_backend(backend) does to the records, given the
\* results of its two probes; the callback runs after the record is updated
CheckBackend(name, http_alive, socks_alive) ==
  /\ name \in DOMAIN hc_backends
  /\ (http_alive /\ socks_alive) \/ hcRun[name].run < MaxFailures
  /\ hc_backends' = [hc_backends EXCEPT
                       ![name] = CheckedBackend(hc_backends[name], http_alive, socks_alive)]
  /\ hcRun' = [hcRun EXCEPT
                 ![name] = RunAfter(hcRun[name], hc_backends[name], http_alive, socks_alive)]
  /\ UNCHANGED <<min_healthy, on_alert>>

\* _check_backend(backend) (lines 108-132) called on a health checker whose
\* loop is not running
_check_backend(name, http_alive, socks_alive) ==
  /\ CheckBackend(name, http_alive, socks_alive)
  /\ UNCHANGED notHC

\* lines 155-168: healthy_count
HealthyBackends == {n \in DOMAIN hc_backends : is_healthy(hc_backends[n])}

\* line 171
OverallByThreshold ==
  IF Cardinality(HealthyBackends) >= min_healthy THEN "healthy" ELSE "degraded"

OverallStatusNoDown == OverallByThreshold

OverallStatusDownIfRegistered ==
  IF Cardinality(HealthyBackends) = 0 /\ DOMAIN hc_backends # {}
  THEN "down" ELSE OverallByThreshold

\* lines 171-173
OverallStatus ==
  IF Cardinality(HealthyBackends) = 0 THEN "down" ELSE OverallByThreshold

\* lines 175-180: what get_health_summary() returns
HealthSummary ==
  [status |-> OverallStatus,
   healthy_backends |-> Cardinality(HealthyBackends),
   total_backends |-> Cardinality(DOMAIN hc_backends)]

\* get_health_summary() (lines 151-180)
get_health_summary ==
  /\ HealthSummary.total_backends = Cardinality(DOMAIN hc_backends)
  /\ UNCHANGED <<hc_backends, min_healthy, on_alert, hcRun>>
  /\ UNCHANGED notHC

\* __init__ (lines 52-60)
InitHC ==
  /\ hc_backends = <<>>
  /\ min_healthy \in 0..MaxMinHealthy
  /\ on_alert = FALSE
  /\ hcRun = <<>>

(***************************************************************************)
(* Processes, PID files and stop_process_by_pid (lib/utils.py)             *)
(***************************************************************************)
\* the managed components: the worker instances and the load balancer
Workers == {<<"3proxy", i>> : i \in 0..(instance_count - 1)}
HAProxy == <<"haproxy", 0>>
Components == Workers \cup {HAProxy}

\* the PIDs of processes that some earlier run, or a stranger, may have left
Pids == 1..MaxPid

\* the PID of the process that starting component c launches
LaunchedPid(c) == MaxPid + 1 + (IF c = HAProxy THEN instance_count ELSE c[2])

\* os.getpid() of the orchestrator
OrchPid == MaxPid + instance_count + 2

\* an integer that int() parses and that is above the range of the C pid_t
HugePid == OrchPid + 1

\* what a PID file may hold; pid is the Optional[int] read_component_pid returns
\* for it, {} standing for None
Absent == [kind |-> "absent", pid |-> {}]
Garbage == [kind |-> "garbage", pid |-> {}]
Holds(p) == [kind |-> "pid", pid |-> {p}]
PidFileValues == {Absent, Garbage, Holds(HugePid)} \cup {Holds(p) : p \in Pids}

\* read_component_pid (lines 129-135): None for a missing or unparseable file
read_component_pid(file) == file.pid

\* os.kill(pid, sig) raises OverflowError, which is no OSError, for a pid above
\* the range of pid_t (lines 123, 190, 205)
KillOverflows(p) == p = HugePid

\* is_process_alive (lines 120-126) where os.kill(pid, 0) does not overflow:
\* True when os.kill returns, False on every OSError, the PermissionError
\* that a live process of another user answers with among them
is_process_alive(p) == p \in procs /\ p \notin foreign

\* line 196: range(timeout * 10)
PollsPerSecond == 10
GracePolls == StopTimeout * PollsPerSecond

\* the stop call nobody has made yet
NoStop == [pc |-> "idle", comp |-> HAProxy, pid |-> {}, polls |-> 0, ret |-> TRUE,
           pre |-> "none"]

\* how the component stands when its stop is called
PreOf(c) ==
  IF pidfile[c].kind # "pid" THEN pidfile[c].kind
  ELSE IF pidfile[c].pid \subseteq procs THEN "alive" ELSE "dead"

\* stop_instance (three_proxy_manager.py 268-278) and HAProxyManager.stop
\* (haproxy_manager.py 268-279) up to the call of stop_process_by_pid: no PID on
\* record, return True
StopRead(c) ==
  /\ st' = [pc |-> IF read_component_pid(pidfile[c]) = {} THEN "ret" ELSE "probe0",
            comp |-> c, pid |-> read_component_pid(pidfile[c]), polls |-> 0,
            ret |-> TRUE, pre |-> PreOf(c)]
  /\ sigs' = {}
  /\ UNCHANGED <<procs, pidfile>>

StPid == CHOOSE p \in st.pid : TRUE

\* lines 182-184: `if not is_process_alive(pid): return True`
FirstProbeSaysDead(p) == ~is_process_alive(p)

\* lines 182-184; the OverflowError of os.kill leaves stop_process_by_pid and
\* the manager's stop, which catch nothing
StopProbe0 ==
  /\ st.pc = "probe0"
  /\ st' = [st EXCEPT !.pc = IF KillOverflows(StPid) THEN "raised"
                              ELSE IF FirstProbeSaysDead(StPid) THEN "unlink"
                              ELSE "term",
                      !.ret = TRUE]
  /\ UNCHANGED <<procs, pidfile, sigs>>
  /\ UNCHANGED notProc

\* lines 189-192: os.kill(pid, 15); OSError means the process is gone: return True
StopTerm ==
  /\ st.pc = "term"
  /\ sigs' = sigs \cup {<<StPid, "TERM", is_process_alive(StPid)>>}
  /\ st' = [st EXCEPT !.pc = IF is_process_alive(StPid) THEN "poll" ELSE "unlink",
                      !.ret = TRUE]
  /\ UNCHANGED <<procs, pidfile>>
  /\ UNCHANGED notProc

PcAfterGraceNoKill == "probe9"

\* lines 202-207: after the grace period comes the SIGKILL
PcAfterGrace == "kill"

\* lines 196-200: one round of the wait loop: return True when the process is
\* gone, else sleep 0.1 s
StopPoll ==
  /\ st.pc = "poll"
  /\ st.polls < GracePolls
  /\ st' = IF ~is_process_alive(StPid)
           THEN [st EXCEPT !.pc = "unlink", !.ret = TRUE]
           ELSE [st EXCEPT !.polls = @ + 1,
                           !.pc = IF st.polls + 1 = GracePolls THEN PcAfterGrace ELSE "poll"]
  /\ UNCHANGED <<procs, pidfile, sigs>>
  /\ UNCHANGED notProc

\* lines 204-207: os.kill(pid, 9), OSError ignored; the process may be gone at
\* once or still be there (dying, a zombie, or unkillable) at the next probe
StopKill ==
  /\ st.pc = "kill"
  /\ sigs' = sigs \cup {<<StPid, "KILL", is_process_alive(StPid)>>}
  /\ procs' \in {procs, procs \ {StPid}}
  /\ st' = [st EXCEPT !.pc = "probe9"]
  /\ UNCHANGED pidfile
  /\ UNCHANGED notProc

\* line 209: return not is_process_alive(pid)
StopProbe9 ==
  /\ st.pc = "probe9"
  /\ st' = [st EXCEPT !.pc = "unlink", !.ret = ~is_process_alive(StPid)]
  /\ UNCHANGED <<procs, pidfile, sigs>>
  /\ UNCHANGED notProc

\* three_proxy_manager.py 273-278, haproxy_manager.py 275-279: the PID file is
\* removed whatever stop_process_by_pid returned, and its result is returned
StopUnlink ==
  /\ st.pc = "unlink"
  /\ pidfile' = [pidfile EXCEPT ![st.comp] = Absent]
  /\ st' = [st EXCEPT !.pc = "ret"]
  /\ UNCHANGED <<procs, sigs>>
  /\ UNCHANGED notProc

\* one step of the stop call in progress
StopStep == StopProbe0 \/ StopTerm \/ StopPoll \/ StopKill \/ StopProbe9 \/ StopUnlink

\* a live process other than the orchestrator exits: on its own, or after a
\* signal it was sent
Exit(p) ==
  /\ p \in procs \ {OrchPid}
  /\ procs' = procs \ {p}
  /\ UNCHANGED <<pidfile, st, sigs>>
  /\ UNCHANGED notProc

\* a caller stops one component: stop_instance(i) or HAProxyManager.stop()
ManagerStop(c) ==
  /\ st.pc \in {"idle", "ret"}
  /\ StopRead(c)
  /\ UNCHANGED notProc

\* no reload() was called yet
NoReload == [op |-> "none", pre |-> "none", pid |-> {}, invoked |-> FALSE,
             raised |-> FALSE, ret |-> FALSE]

\* what `haproxy -D -f cfg -p pidfile -sf pid` may do: a non-zero return code;
\* return code 0 with the new daemon up, its PID in the PID file and the old
\* process told to finish; subprocess.run raising (binary missing, timeout)
ReloadOutcomes == {"failed", "reloaded", "raises"}

\* the PID of the daemon a reload launches
ReloadedPid == HugePid + 1

\* haproxy_manager.py 283-286: `if not pid or not is_process_alive(pid)` lets
\* reload() go on (os.kill(pid, 0) has not overflowed)
ReloadGoesOn ==
  /\ read_component_pid(pidfile[HAProxy]) # {}
  /\ \A p \in read_component_pid(pidfile[HAProxy]) :
       ~KillOverflows(p) /\ is_process_alive(p)

\* HAProxyManager.reload() (haproxy_manager.py 281-307)
reload(out) ==
  /\ st.pc \in {"idle", "ret"}
  /\ ReloadedPid \notin procs
  /\ LET pid == read_component_pid(pidfile[HAProxy])
         mark == [op |-> "reload", pre |-> PreOf(HAProxy), pid |-> pid,
                  invoked |-> FALSE, raised |-> FALSE, ret |-> FALSE]
     IN IF \E p \in pid : KillOverflows(p)
        THEN \* is_process_alive raises OverflowError, which reload() lets out
             /\ reloaded' = [mark EXCEPT !.raised = TRUE]
             /\ UNCHANGED <<procs, pidfile>>
        ELSE IF ~ReloadGoesOn
        THEN \* lines 284-286: return False
             /\ reloaded' = mark
             /\ UNCHANGED <<procs, pidfile>>
        ELSE \* lines 288-307: the binary is run
             /\ reloaded' = [mark EXCEPT !.invoked = TRUE, !.ret = (out = "reloaded")]
             /\ procs' = IF out = "reloaded" THEN procs \cup {ReloadedPid} ELSE procs
             /\ pidfile' = IF out = "reloaded"
                            THEN [pidfile EXCEPT ![HAProxy] = Holds(ReloadedPid)]
                            ELSE pidfile
  /\ UNCHANGED <<st, sigs, foreign>>
  /\ UNCHANGED notReload

(***************************************************************************)
(* ProxyStackOrchestrator (proxy_stack.py) and the managers' start          *)
(***************************************************************************)
\* the steps of stop() that are no manager's stop
MonitoringStep == <<"monitoring", 0>>
HealthCheckerStep == <<"health_checker", 0>>
AntiDetectStep == <<"anti_detect", 0>>
PidFileStep == <<"pid_file", 0>>

\* the steps of stop() (lines 181-212)
StopSteps == {MonitoringStep, HealthCheckerStep, AntiDetectStep, PidFileStep} \cup Components

\* the orchestrator between two calls; a call begins with no manager stop in
\* progress and no signal sent
\* (found, generated, none_up and again are history: what a start() that was
\* called with a live instance on record found, whether the call has run
\* generate_configs, whether its start_all returned False, and whether the
\* call is a stop() of a stack that was stopped already)
NoCall == [pc |-> "idle", op |-> "none", i |-> 0, ok_count |-> 0, errors |-> 0,
           ok |-> TRUE, rollback |-> FALSE, stopped |-> FALSE, ret |-> 0,
           stop_ret |-> 0, calls |-> 0, found |-> <<>>, generated |-> FALSE,
           none_up |-> FALSE, again |-> FALSE]

\* no main() of a `start` command is followed
\* (signals, inside and handled are history: the signals delivered so far,
\* where main() stood when the handler that is running was entered, and
\* whether the stop() of the handler of the last signal has returned)
NoMain == [pc |-> "none", foreground |-> FALSE, signals |-> 0, inside |-> "none",
           handled |-> FALSE, how |-> "none", code |-> 0, t |-> 0, polled |-> 0]

\* read_pid_file (utils.py 103-109): None for a missing or unparseable file
read_pid_file(file) == file.pid

\* _is_already_running (lines 265-267)
_is_already_running ==
  /\ read_pid_file(stackpid) # {}
  /\ \A p \in read_pid_file(stackpid) : is_process_alive(p)

\* main() runs one action of the command line on the orchestrator
CanCall == orch.pc \in {"idle", "done"} /\ orch.calls < MaxOrchCalls

NewCall(op) == [NoCall EXCEPT !.op = op, !.calls = orch.calls + 1]

\* proxy-stack.pid names a process that is alive
LiveInstanceOnRecord == \E p \in stackpid.pid : p \in procs

\* what a call can change, as it stands
Snapshot ==
  [procs |-> procs, pidfile |-> pidfile, stackpid |-> stackpid,
   monitoring |-> monitoring, hc_thread |-> hc_thread, ad_thread |-> ad_thread,
   hc_backends |-> hc_backends]

StartCall ==
  [NewCall("start") EXCEPT !.found = IF LiveInstanceOnRecord THEN Snapshot ELSE <<>>]

\* start(), lines 114-129: already running, or generate_configs and validate;
\* a failed validation returns 1 at once
start ==
  /\ CanCall
  /\ \E valid \in BOOLEAN :
       orch' = IF _is_already_running
               THEN [StartCall EXCEPT !.pc = "done", !.ret = 1]
               ELSE IF ~valid
               THEN [StartCall EXCEPT !.pc = "done", !.ret = 1, !.generated = TRUE]
               ELSE [StartCall EXCEPT !.pc = "start_all", !.generated = TRUE]
  /\ launched' = {}
  /\ attempted' = {}
  /\ reported' = {}
  /\ st' = NoStop
  /\ sigs' = {}
  /\ UNCHANGED <<config, monitoring, hc_thread, ad_thread, stackpid>>
  /\ UNCHANGED <<procs, pidfile, hcVars, notOrch>>

\* what the launcher of a worker may do: Popen raises (the binary is missing);
\* the launcher exits, with a non-zero status or not, and no daemon lives; the
\* daemon lives and has written its PID file; the daemon
\* lives and its PID file is not there (yet); the launcher is still running
\* after 5 s (proc.wait raises TimeoutExpired)
StartOutcomes == {"spawn_error", "exited", "daemon", "daemon_no_pid_file", "timeout"}

\* three_proxy_manager.py 241-243, haproxy_manager.py 259-261: `pid and
\* is_process_alive(pid)` on the PID file as the launcher left it; the
\* OverflowError of os.kill is caught with every Exception (251, 264)
PidFileSaysUp(c) ==
  /\ read_component_pid(pidfile'[c]) # {}
  /\ read_component_pid(pidfile'[c]) # {HugePid}
  /\ read_component_pid(pidfile'[c]) \subseteq procs' \ foreign

\* start_instance(i) (three_proxy_manager.py 224-253) inside the loop of
\* start_all (255-260); a worker whose old process still holds its ports
\* cannot come up again
start_instance(out) ==
  /\ orch.pc = "start_all"
  /\ orch.i < instance_count
  /\ LET c == <<"3proxy", orch.i>>
         pid == LaunchedPid(c)
     IN  /\ pid \in procs => out \in {"spawn_error", "exited"}
         /\ procs' = IF out \in {"daemon", "daemon_no_pid_file", "timeout"}
                     THEN procs \cup {pid} ELSE procs
         /\ pidfile' = IF out = "daemon" THEN [pidfile EXCEPT ![c] = Holds(pid)] ELSE pidfile
         /\ launched' = IF out \in {"daemon", "daemon_no_pid_file", "timeout"}
                        THEN launched \cup {pid} ELSE launched
         /\ orch' = [orch EXCEPT !.i = @ + 1,
                                 !.ok_count = IF out \notin {"spawn_error", "timeout"} /\ PidFileSaysUp(c)
                                              THEN @ + 1 ELSE @]
  /\ UNCHANGED <<st, sigs, config, monitoring, hc_thread, ad_thread, stackpid, attempted, reported>>
  /\ UNCHANGED <<hcVars, notOrch>>

\* start_all returns (three_proxy_manager.py 261-266) and start() goes on:
\* no worker up is fatal, stop() and return 1 (lines 133-136)
start_all_returns ==
  /\ orch.pc = "start_all"
  /\ orch.i = instance_count
  /\ orch' = IF orch.ok_count = 0
             THEN [orch EXCEPT !.pc = "stop_monitoring", !.rollback = TRUE, !.i = 0,
                               !.none_up = TRUE]
             ELSE [orch EXCEPT !.pc = "haproxy_start", !.i = 0, !.ok_count = 0]
  /\ UNCHANGED <<config, monitoring, hc_thread, ad_thread, stackpid, launched, attempted, reported>>
  /\ UNCHANGED <<procVars, hcVars, notOrch>>

\* what the haproxy command may do: a non-zero return code or the 10 s timeout
\* of subprocess.run, which kills it; the daemon lives and has written its
\* PID file; the daemon wrote its PID file and died
HAProxyOutcomes == {"failed", "daemon", "daemon_died"}

\* HAProxyManager.start (haproxy_manager.py 237-266) and start() going on:
\* a failure is fatal, stop() and return 1 (lines 143-146)
haproxy_start(out) ==
  /\ orch.pc = "haproxy_start"
  /\ LET pid == LaunchedPid(HAProxy)
     IN  /\ pid \in procs => out = "failed"
         /\ procs' = IF out = "daemon" THEN procs \cup {pid} ELSE procs
         /\ pidfile' = IF out = "failed" THEN pidfile
                       ELSE [pidfile EXCEPT ![HAProxy] = Holds(pid)]
         /\ launched' = IF out = "daemon" THEN launched \cup {pid} ELSE launched
         /\ orch' = IF out # "failed" /\ PidFileSaysUp(HAProxy)
                    THEN [orch EXCEPT !.pc = "services"]
                    ELSE [orch EXCEPT !.pc = "stop_monitoring", !.rollback = TRUE]
  /\ UNCHANGED <<st, sigs, config, monitoring, hc_thread, ad_thread, stackpid, attempted, reported>>
  /\ UNCHANGED <<hcVars, notOrch>>

\* lines 166-175, the report that follows write_pid_file: it is logged, or
\* building it raises: config.haproxy.frontends["http"]["bind_port"] is a
\* KeyError for a configuration without that key (config_loader.py 200 reads
\* `frontends` as it is), and with stats.enabled, the default,
\* config.haproxy.stats["bind"] is a TypeError, HAProxyStats (config_loader.py
\* 25-33) being a dataclass that defines get() and no __getitem__
ReportOutcomes == {"logged", "raises"}

\* start(), lines 148-177: the monitoring server (its bind may fail, which
\* MonitoringServer.start only logs), the anti-detect loop, the registration
\* of the backends, the health checker's loop, the PID file, the report;
\* return 0
start_services ==
  /\ orch.pc = "services"
  /\ \E bound \in BOOLEAN :
       monitoring' = IF ~config.monitoring_enabled THEN monitoring
                     ELSE IF bound THEN "serving" ELSE "unbound"
  /\ ad_thread' = (ad_thread \/ config.ua_rotation_enabled)
  /\ RegisterBackends(BackendNames)
  /\ hc_thread' = TRUE
  /\ stackpid' = Holds(OrchPid)
  /\ \E report \in ReportOutcomes :
       orch' = IF report = "logged"
               THEN [orch EXCEPT !.pc = "done", !.ret = 0]
               ELSE [orch EXCEPT !.pc = "raised"]
  /\ UNCHANGED <<config, launched, attempted, reported>>
  /\ UNCHANGED <<procVars, notOrch>>

\* nothing was ever started: no call was made on the orchestrator and no PID
\* file is there
NeverStarted ==
  /\ orch.pc = "idle"
  /\ stackpid = Absent
  /\ \A c \in Components : pidfile[c] = Absent

\* a stop() has run to its return, as the last call or inside it, and left no
\* monitoring server serving
StoppedBefore ==
  /\ orch.pc = "done"
  /\ orch.stopped
  /\ monitoring # "serving"

\* lines 181-185: stop() is entered; a call it interrupts is left where it was
EnterStop ==
  /\ orch' = [NewCall("stop") EXCEPT !.pc = "stop_monitoring",
                                     !.again = NeverStarted \/ StoppedBefore]
  /\ launched' = {}
  /\ attempted' = {}
  /\ reported' = {}
  /\ st' = NoStop
  /\ sigs' = {}
  /\ UNCHANGED <<config, monitoring, hc_thread, ad_thread, stackpid>>
  /\ UNCHANGED <<procs, pidfile, hcVars, notOrchMain>>

\* stop() begins between two calls
BeginStop ==
  /\ EnterStop
  /\ UNCHANGED mainVars

\* stop() is called from the command line
stop ==
  /\ CanCall
  /\ BeginStop

\* stop() is called once more on the same orchestrator, after a call that
\* returned: by main() when the foreground loop ends (proxy_stack.py 368-375),
\* or by a signal handler (lines 271-275)
stop_again ==
  /\ orch.pc = "done"
  /\ orch.calls < MaxOrchCalls + MaxStops
  /\ BeginStop

\* lines 188-193: the monitoring server, if there is one; an exception of its
\* stop counts as an error
stop_monitoring ==
  /\ orch.pc = "stop_monitoring"
  /\ \E raises \in BOOLEAN :
       /\ raises => monitoring = "serving"
       /\ monitoring' = IF monitoring = "none" \/ raises THEN monitoring ELSE "stopped"
       /\ orch' = [orch EXCEPT !.pc = "stop_health_checker", !.stopped = TRUE,
                               !.errors = IF raises THEN @ + 1 ELSE @]
       /\ reported' = IF raises THEN reported \cup {MonitoringStep} ELSE reported
  /\ attempted' = attempted \cup {MonitoringStep}
  /\ UNCHANGED <<config, hc_thread, ad_thread, stackpid, launched>>
  /\ UNCHANGED <<procVars, hcVars, notOrch>>

\* line 195: health_checker.stop() sets the stop event and joins the loop
stop_health_checker ==
  /\ orch.pc = "stop_health_checker"
  /\ hc_thread' = FALSE
  /\ attempted' = attempted \cup {HealthCheckerStep}
  /\ orch' = [orch EXCEPT !.pc = "stop_anti_detect"]
  /\ UNCHANGED <<config, monitoring, ad_thread, stackpid, launched, reported>>
  /\ UNCHANGED <<procVars, hcVars, notOrch>>

\* line 196: anti_detect.stop() sets the stop event and joins the loop
stop_anti_detect ==
  /\ orch.pc = "stop_anti_detect"
  /\ ad_thread' = FALSE
  /\ attempted' = attempted \cup {AntiDetectStep}
  /\ orch' = [orch EXCEPT !.pc = "stop_haproxy"]
  /\ UNCHANGED <<config, monitoring, hc_thread, stackpid, launched, reported>>
  /\ UNCHANGED <<procVars, hcVars, notOrch>>

StopTargetWorkersFirst ==
  IF orch.pc = "stop_haproxy" THEN <<"3proxy", 0>> ELSE <<"3proxy", orch.i>>

\* lines 198-201: the manager stop() calls next: HAProxy's, then the workers'
StopTarget ==
  IF orch.pc = "stop_haproxy" THEN HAProxy ELSE <<"3proxy", orch.i>>

\* line 198 calls haproxy_mgr.stop(); stop_all (three_proxy_manager.py 280-285)
\* calls stop_instance(i)
call_stop ==
  /\ orch.pc \in {"stop_haproxy", "stop_all"}
  /\ orch.pc = "stop_all" => orch.i < instance_count
  /\ StopRead(StopTarget)
  /\ orch' = [orch EXCEPT !.pc = IF orch.pc = "stop_haproxy" THEN "in_haproxy_stop"
                                 ELSE "in_stop_instance"]
  /\ UNCHANGED <<config, monitoring, hc_thread, ad_thread, stackpid, launched, attempted, reported>>
  /\ UNCHANGED <<hcVars, notOrch>>

\* lines 198-199: `if not self.haproxy_mgr.stop(): errors += 1`
haproxy_stop_returns ==
  /\ orch.pc = "in_haproxy_stop"
  /\ st.pc = "ret"
  /\ orch' = [orch EXCEPT !.pc = "stop_all", !.i = 0, !.ok = TRUE,
                          !.errors = IF st.ret THEN @ ELSE @ + 1]
  /\ attempted' = attempted \cup {HAProxy}
  /\ reported' = IF st.ret THEN reported ELSE reported \cup {HAProxy}
  /\ UNCHANGED <<config, monitoring, hc_thread, ad_thread, stackpid, launched>>
  /\ UNCHANGED <<procVars, hcVars, notOrch>>

\* three_proxy_manager.py 283-284: `if not self.stop_instance(i): ok = False`
StopAllOk(ok, ret) == ok /\ ret

\* stop_instance(i) returns into the loop of stop_all
stop_instance_returns ==
  /\ orch.pc = "in_stop_instance"
  /\ st.pc = "ret"
  /\ orch' = [orch EXCEPT !.pc = "stop_all", !.i = @ + 1, !.ok = StopAllOk(@, st.ret)]
  /\ attempted' = attempted \cup {st.comp}
  /\ reported' = IF st.ret THEN reported ELSE reported \cup {st.comp}
  /\ UNCHANGED <<config, monitoring, hc_thread, ad_thread, stackpid, launched>>
  /\ UNCHANGED <<procVars, hcVars, notOrch>>

\* the OverflowError of a manager's stop leaves stop(), start() and main(),
\* none of which catches it
stop_raises ==
  /\ orch.pc \in {"in_haproxy_stop", "in_stop_instance"}
  /\ st.pc = "raised"
  /\ orch' = [orch EXCEPT !.pc = "raised"]
  /\ UNCHANGED <<config, monitoring, hc_thread, ad_thread, stackpid, launched, attempted, reported>>
  /\ UNCHANGED <<procVars, hcVars, notOrch>>

remove_pid_file_never == stackpid

\* remove_pid_file (utils.py 112-117): proxy-stack.pid is gone afterwards
remove_pid_file == Absent

\* lines 201-212: stop_all has returned; remove_pid_file; return 1 if there
\* were errors; start() returns 1 after its stop() (lines 135-136, 145-146)
stop_returns ==
  /\ orch.pc = "stop_all"
  /\ orch.i = instance_count
  /\ stackpid' = remove_pid_file
  /\ attempted' = attempted \cup {PidFileStep}
  /\ LET errors == orch.errors + (IF orch.ok THEN 0 ELSE 1)
     IN  orch' = [orch EXCEPT !.pc = "done", !.errors = errors, !.i = 0, !.ok = TRUE,
                              !.stop_ret = IF errors > 0 THEN 1 ELSE 0,
                              !.ret = IF orch.rollback \/ errors > 0 THEN 1 ELSE 0]
  /\ UNCHANGED <<config, monitoring, hc_thread, ad_thread, launched, reported>>
  /\ UNCHANGED <<procVars, hcVars, notOrch>>

\* status of one component (three_proxy_manager.py 292-294, haproxy_manager.py
\* 311-314): the PID on record and `pid is not None and is_process_alive(pid)`
ManagerStatus(c) ==
  [pid |-> read_component_pid(pidfile[c]),
   alive |-> /\ read_component_pid(pidfile[c]) # {}
             /\ \A p \in read_component_pid(pidfile[c]) : is_process_alive(p)]

\* a status call that returns: it reads and changes nothing (with a PID above
\* pid_t on record, os.kill raises and the call returns nothing)
manager_status(c) ==
  /\ st.pc \in {"idle", "ret"}
  /\ ~\E p \in read_component_pid(pidfile[c]) : KillOverflows(p)
  /\ ManagerStatus(c).alive \in BOOLEAN
  /\ UNCHANGED <<procVars, notProc>>

\* Only the probes of p (os.kill(p, ...) of a start or stop that has p on
\* record) and the state between two calls tell whether p is alive. An exit of
\* p is therefore followed where a probe of p comes next and between calls:
\* anywhere else it leads to the same probes' results as the exit before the
\* next probe.
ExitIsSeen(p) ==
  \/ orch.pc \in {"idle", "done", "raised"}
  \/ p \in st.pid /\ st.pc \in {"probe0", "term", "poll", "kill", "probe9"}

\* an exit that is followed
SeenExit(p) ==
  /\ ExitIsSeen(p)
  /\ Exit(p)

(***************************************************************************)
(* The background threads: HealthChecker._loop (health_checker.py) and     *)
(* AntiDetectEngine._background_loop (anti_detect.py)                      *)
(***************************************************************************)
is_set_never(event) == FALSE

\* threading.Event.is_set()
is_set(event) == event

\* what the alert callback does when _fire_alert calls it: it returns, raises
\* an exception derived from Exception, or leaves by one that is not
\* (SystemExit, KeyboardInterrupt)
CallbackOutcomes == {"returns", "raises", "exits"}

CaughtNothing(cb) == FALSE

\* health_checker.py lines 138-147: `try: ... except Exception`
Caught(cb) == cb = "raises"

\* _check_backend leaves by the exception of a callback that is not caught
CheckRaises(b, http_alive, socks_alive, cb) ==
  /\ CallbackCalled(b, http_alive, socks_alive)
  /\ cb # "returns"
  /\ ~Caught(cb)

\* no thread object: self._thread is None
\* no thread that a stop() has given up joining
\* (resumed is history: the thread has gone on polling after that stop())
NoOrphan == [pc |-> "none", i |-> 0, n |-> 0, resumed |-> FALSE]

NoHealthThread == [pc |-> "none", i |-> 0, n |-> 0, joining |-> FALSE, caught |-> {},
                   orphan |-> NoOrphan]

\* threading.Thread.is_alive() of the health checker's thread
HealthRunning == hc_loop.pc \in {"while", "for", "call", "wait"}

\* HealthChecker.start() (health_checker.py lines 212-217)
health_start ==
  /\ hc_loop.pc # "absent"
  /\ ~hc_loop.joining
  /\ IF HealthRunning
     THEN UNCHANGED <<hc_stop, hc_loop>>
     ELSE /\ hc_stop' = FALSE
          /\ hc_loop' = [NoHealthThread EXCEPT !.pc = "while", !.orphan = hc_loop.orphan]
  /\ UNCHANGED <<ad_stop, ad_loop, sinceStop>>
  /\ UNCHANGED <<rlVars, uaVars, hcVars, notLoops>>

\* HealthChecker.stop() up to its join (lines 219-222)
health_stop ==
  /\ hc_loop.pc # "absent"
  /\ ~hc_loop.joining
  /\ hc_stop' = TRUE
  /\ hc_loop' = [hc_loop EXCEPT !.joining = TRUE]
  /\ sinceStop' = [sinceStop EXCEPT !.checks = 0]
  /\ UNCHANGED <<ad_stop, ad_loop>>
  /\ UNCHANGED <<rlVars, uaVars, hcVars, notLoops>>

\* lines 221-224: join(timeout=10) returns with the thread ended and stop()
\* drops it; one check lasts two probes of at most _tcp_timeout = 3 s each
\* (line 58) when the connects are all it waits for
health_stop_returns ==
  /\ hc_loop.joining
  /\ ~HealthRunning
  /\ hc_loop' = [NoHealthThread EXCEPT !.orphan = hc_loop.orphan]
  /\ UNCHANGED <<hc_stop, ad_stop, ad_loop, sinceStop>>
  /\ UNCHANGED <<rlVars, uaVars, hcVars, notLoops>>

\* the orphaned thread is inside _loop
OrphanRunning == hc_loop.orphan.pc \in {"while", "for", "call", "wait"}

\* lines 222-223: join(timeout=10) returns after 10 s while the thread is
\* still inside a check (the name resolution of connect() is not bounded by
\* the socket timeout, nor is the alert callback), and stop() drops its
\* reference to the thread, which runs on
health_join_times_out ==
  /\ hc_loop.joining
  /\ hc_loop.pc = "call"
  /\ ~OrphanRunning
  /\ hc_loop' = [NoHealthThread EXCEPT
                   !.orphan = [pc |-> "call", i |-> hc_loop.i, n |-> hc_loop.n,
                               resumed |-> FALSE]]
  /\ UNCHANGED <<hc_stop, ad_stop, ad_loop, sinceStop>>
  /\ UNCHANGED <<rlVars, uaVars, hcVars, notLoops>>

\* line 204 in the orphaned thread
orphan_while ==
  /\ hc_loop.orphan.pc = "while"
  /\ hc_loop' = IF is_set(hc_stop)
                THEN [hc_loop EXCEPT !.orphan.pc = "exited"]
                ELSE [hc_loop EXCEPT !.orphan.pc = "for", !.orphan.i = 0,
                                     !.orphan.n = Cardinality(DOMAIN hc_backends),
                                     !.orphan.resumed = TRUE]
  /\ UNCHANGED <<hc_stop, ad_stop, ad_loop, sinceStop>>
  /\ UNCHANGED <<rlVars, uaVars, hcVars, notLoops>>

\* lines 205-207 in the orphaned thread
orphan_for ==
  /\ hc_loop.orphan.pc = "for"
  /\ hc_loop' = IF hc_loop.orphan.i = hc_loop.orphan.n \/ is_set(hc_stop)
                THEN [hc_loop EXCEPT !.orphan.pc = "wait"]
                ELSE [hc_loop EXCEPT !.orphan.pc = "call", !.orphan.resumed = TRUE]
  /\ UNCHANGED <<hc_stop, ad_stop, ad_loop, sinceStop>>
  /\ UNCHANGED <<rlVars, uaVars, hcVars, notLoops>>

\* line 208 in the orphaned thread: its check returns at last
orphan_check(http_alive, socks_alive, cb) ==
  /\ hc_loop.orphan.pc = "call"
  /\ hc_loop.orphan.i \in DOMAIN hc_backends
  /\ CallbackCalled(hc_backends[hc_loop.orphan.i], http_alive, socks_alive) \/ cb = "returns"
  /\ CheckBackend(hc_loop.orphan.i, http_alive, socks_alive)
  /\ hc_loop' = IF CheckRaises(hc_backends[hc_loop.orphan.i], http_alive, socks_alive, cb)
                THEN [hc_loop EXCEPT !.orphan.pc = "dead"]
                ELSE [hc_loop EXCEPT !.orphan.pc = "for", !.orphan.i = @ + 1]
  /\ UNCHANGED <<hc_stop, ad_stop, ad_loop, sinceStop>>
  /\ UNCHANGED <<rlVars, uaVars, notLoops>>

\* line 210 in the orphaned thread
orphan_wait ==
  /\ hc_loop.orphan.pc = "wait"
  /\ hc_loop' = [hc_loop EXCEPT !.orphan.pc = "while"]
  /\ UNCHANGED <<hc_stop, ad_stop, ad_loop, sinceStop>>
  /\ UNCHANGED <<rlVars, uaVars, hcVars, notLoops>>

\* a step of a thread that a stop() has given up joining
OrphanStep ==
  \/ orphan_while
  \/ orphan_for
  \/ \E alive \in BOOLEAN : \E cb \in CallbackOutcomes : orphan_check(alive, alive, cb)
  \/ orphan_wait

\* line 204: `while not self._stop_event.is_set()`, and line 205: the list of
\* the records, in the order of their registration
health_while ==
  /\ hc_loop.pc = "while"
  /\ hc_loop' = IF is_set(hc_stop)
                THEN [hc_loop EXCEPT !.pc = "exited"]
                ELSE [hc_loop EXCEPT !.pc = "for", !.i = 0,
                                     !.n = Cardinality(DOMAIN hc_backends)]
  /\ UNCHANGED <<hc_stop, ad_stop, ad_loop, sinceStop>>
  /\ UNCHANGED <<rlVars, uaVars, hcVars, notLoops>>

\* lines 205-207: the next record of the list, unless the event is set
health_for ==
  /\ hc_loop.pc = "for"
  /\ hc_loop' = IF hc_loop.i = hc_loop.n \/ is_set(hc_stop)
                THEN [hc_loop EXCEPT !.pc = "wait"]
                ELSE [hc_loop EXCEPT !.pc = "call"]
  /\ UNCHANGED <<hc_stop, ad_stop, ad_loop, sinceStop>>
  /\ UNCHANGED <<rlVars, uaVars, hcVars, notLoops>>

\* the names a raising callback was caught for in the current run of failures
CaughtAfter(name, http_alive, socks_alive, cb) ==
  IF http_alive /\ socks_alive
  THEN hc_loop.caught \ {name}
  ELSE IF CallbackCalled(hc_backends[name], http_alive, socks_alive) /\ cb = "raises"
       THEN hc_loop.caught \cup {name}
       ELSE hc_loop.caught

\* line 208: self._check_backend(backend), with the results of the two probes
\* and what the callback does if it is called
health_check(http_alive, socks_alive, cb) ==
  /\ hc_loop.pc = "call"
  /\ CallbackCalled(hc_backends[hc_loop.i], http_alive, socks_alive) \/ cb = "returns"
  /\ CheckBackend(hc_loop.i, http_alive, socks_alive)
  /\ hc_loop' = IF CheckRaises(hc_backends[hc_loop.i], http_alive, socks_alive, cb)
                THEN [hc_loop EXCEPT !.pc = "dead"]
                ELSE [hc_loop EXCEPT
                        !.pc = "for", !.i = @ + 1,
                        !.caught = CaughtAfter(hc_loop.i, http_alive, socks_alive, cb)]
  /\ sinceStop' = [sinceStop EXCEPT
                     !.checks = IF hc_stop THEN Min(@ + 1, MaxSince) ELSE @]
  /\ UNCHANGED <<hc_stop, ad_stop, ad_loop>>
  /\ UNCHANGED <<rlVars, uaVars, notLoops>>

\* line 210: self._stop_event.wait(timeout=self._check_interval) returns, the
\* event set or the interval over
health_wait ==
  /\ hc_loop.pc = "wait"
  /\ hc_loop' = [hc_loop EXCEPT !.pc = "while"]
  /\ UNCHANGED <<hc_stop, ad_stop, ad_loop, sinceStop>>
  /\ UNCHANGED <<rlVars, uaVars, hcVars, notLoops>>

\* a step of the health checker's thread; the backend checked answers on both
\* of its ports or on none
HealthLoopStep ==
  \/ health_while
  \/ health_for
  \/ \E alive \in BOOLEAN : \E cb \in CallbackOutcomes : health_check(alive, alive, cb)
  \/ health_wait

\* proxy_stack.py lines 159-162: the backends are registered before the loop is
\* started
loop_register_backends(names) ==
  /\ hc_loop.pc # "absent"
  /\ ~HealthRunning
  /\ ~hc_loop.joining
  /\ RegisterBackends(names)
  /\ hc_loop' = [hc_loop EXCEPT !.caught = @ \ names]
  /\ UNCHANGED <<hc_stop, ad_stop, ad_loop, sinceStop>>
  /\ UNCHANGED <<rlVars, uaVars, notLoops>>

\* set_alert_callback(callback) on a health checker that has a thread
loop_set_alert_callback ==
  /\ hc_loop.pc # "absent"
  /\ set_alert_callback

\* anti_detect.py line 220: `if cleanup_counter >= 5`
CleanupEvery == 5

\* anti_detect.py line 100: the default max_age of cleanup()
DefaultMaxAge == 300

\* no thread object: self._thread is None (cycle and cleaned are history: the
\* turns of the loop that passed the test of line 211, and those of them on
\* which cleanup() was called)
NoRotationThread(enabled) ==
  [pc |-> "none", cleanup_counter |-> 0, joining |-> FALSE, enabled |-> enabled,
   cycle |-> 0, cleaned |-> {}]

\* threading.Thread.is_alive() of the engine's thread
RotationRunning == ad_loop.pc \in {"while", "wait", "woke", "rotate"}

\* AntiDetectEngine.start() (anti_detect.py lines 226-232); line 207 sets
\* cleanup_counter when the thread enters _background_loop
rotation_start ==
  /\ ad_loop.pc # "absent"
  /\ ~ad_loop.joining
  /\ IF RotationRunning
     THEN UNCHANGED <<ad_stop, ad_loop>>
     ELSE /\ ad_stop' = FALSE
          /\ ad_loop' = [NoRotationThread(ad_loop.enabled) EXCEPT !.pc = "while"]
  /\ UNCHANGED <<hc_stop, hc_loop, sinceStop>>
  /\ UNCHANGED <<rlVars, uaVars, hcVars, notLoops>>

\* AntiDetectEngine.stop() up to its join (lines 234-238)
rotation_stop ==
  /\ ad_loop.pc # "absent"
  /\ ~ad_loop.joining
  /\ ad_stop' = TRUE
  /\ ad_loop' = [ad_loop EXCEPT !.joining = TRUE]
  /\ sinceStop' = [sinceStop EXCEPT !.rotations = 0]
  /\ UNCHANGED <<hc_stop, hc_loop>>
  /\ UNCHANGED <<rlVars, uaVars, hcVars, notLoops>>

\* lines 237-240: join(timeout=5) returns and stop() drops the thread; a
\* rotation and a cleanup take no time to speak of
rotation_stop_returns ==
  /\ ad_loop.joining
  /\ ~RotationRunning
  /\ ad_loop' = NoRotationThread(ad_loop.enabled)
  /\ UNCHANGED <<hc_stop, hc_loop, ad_stop, sinceStop>>
  /\ UNCHANGED <<rlVars, uaVars, hcVars, notLoops>>

\* line 209: `while not self._stop_event.is_set()`
rotation_while ==
  /\ ad_loop.pc = "while"
  /\ ad_loop' = [ad_loop EXCEPT !.pc = IF is_set(ad_stop) THEN "exited" ELSE "wait"]
  /\ UNCHANGED <<hc_stop, hc_loop, ad_stop, sinceStop>>
  /\ UNCHANGED <<rlVars, uaVars, hcVars, notLoops>>

\* line 210: self._stop_event.wait(timeout=interval) returns, the event set or
\* the interval over
rotation_wait ==
  /\ ad_loop.pc = "wait"
  /\ ad_loop' = [ad_loop EXCEPT !.pc = "woke"]
  /\ UNCHANGED <<hc_stop, hc_loop, ad_stop, sinceStop>>
  /\ UNCHANGED <<rlVars, uaVars, hcVars, notLoops>>

\* lines 211-212: `if self._stop_event.is_set(): break`
rotation_woke ==
  /\ ad_loop.pc = "woke"
  /\ ad_loop' = [ad_loop EXCEPT !.pc = IF is_set(ad_stop) THEN "exited" ELSE "rotate"]
  /\ UNCHANGED <<hc_stop, hc_loop, ad_stop, sinceStop>>
  /\ UNCHANGED <<rlVars, uaVars, hcVars, notLoops>>

CleanupDueLate(counter) == counter > CleanupEvery

\* line 220: `if cleanup_counter >= 5 and self.rate_limiter`, the limiter set
CleanupDue(counter) == counter >= CleanupEvery

\* the turn that is being counted; turns from MaxCycles on are not told apart
ThisCycle == Min(ad_loop.cycle + 1, MaxCycles)

\* lines 219-224: the counter, and the cleanup of the limiter every fifth turn
CountAndCleanup ==
  IF CleanupDue(ad_loop.cleanup_counter + 1)
  THEN /\ CleanupBuckets(DefaultMaxAge)
       /\ ad_loop' = [ad_loop EXCEPT !.pc = "while", !.cleanup_counter = 0,
                                     !.cycle = ThisCycle,
                                     !.cleaned = IF ThisCycle < MaxCycles
                                                 THEN @ \cup {ThisCycle} ELSE @]
  ELSE /\ UNCHANGED rlVars
       /\ ad_loop' = [ad_loop EXCEPT !.pc = "while", !.cleanup_counter = @ + 1,
                                     !.cycle = ThisCycle]

\* lines 214-224: one turn of the loop; the IndexError of rotate_user_agent()
\* ends the thread
rotation_rotate ==
  /\ ad_loop.pc = "rotate"
  /\ \/ ~ad_loop.enabled /\ UNCHANGED uaVars /\ CountAndCleanup
     \/ ad_loop.enabled /\ RotateOk /\ CountAndCleanup
     \/ /\ ad_loop.enabled
        /\ RotateRaise
        /\ ad_loop' = [ad_loop EXCEPT !.pc = "dead"]
        /\ UNCHANGED rlVars
  /\ sinceStop' = [sinceStop EXCEPT
                     !.rotations = IF ad_stop /\ ad_loop.enabled
                                   THEN Min(@ + 1, MaxSince) ELSE @]
  /\ UNCHANGED <<hc_stop, hc_loop, ad_stop>>
  /\ UNCHANGED <<hcVars, notLoops>>

\* a step of the engine's thread
RotationLoopStep ==
  \/ rotation_while
  \/ rotation_wait
  \/ rotation_woke
  \/ rotation_rotate

\* the pool files of the engines whose thread is followed: none kept line, one,
\* two different ones, the same line twice
LoopFiles ==
  {<<>>, << <<"a">> >>, << <<"a">>, <<"b">> >>, << <<"a">>, <<"a">> >>}

\* a health checker after __init__ (health_checker.py lines 52-60): no thread,
\* the event clear; no engine is constructed
InitHealthLoop ==
  /\ ua_pool = <<>>
  /\ current_ua = <<>>
  /\ uaLast = [op |-> "none", before |-> <<>>, raised |-> FALSE, ret |-> <<>>]
  /\ hc_loop = NoHealthThread
  /\ ad_loop = [NoRotationThread(FALSE) EXCEPT !.pc = "absent"]

\* an engine after __init__ (anti_detect.py lines 123-145): no thread, the event
\* clear; no health checker is constructed
InitRotationLoop ==
  /\ ua_pool \in {LoadPool(file) : file \in LoopFiles}
  /\ current_ua \in (IF ua_pool # <<>> THEN Range(ua_pool) ELSE {<<>>})
  /\ uaLast = [op |-> "none", before |-> <<>>, raised |-> FALSE, ret |-> <<>>]
  /\ hc_loop = [NoHealthThread EXCEPT !.pc = "absent"]
  /\ ad_loop \in {NoRotationThread(enabled) : enabled \in BOOLEAN}

\* the two objects share no state: each is followed on its own
InitLoops ==
  /\ InitHealthLoop \/ InitRotationLoop
  /\ hc_stop = FALSE
  /\ ad_stop = FALSE
  /\ sinceStop = [checks |-> 0, rotations |-> 0]

\* no thread was ever started
IdleLoops ==
  /\ hc_stop = FALSE
  /\ hc_loop = NoHealthThread
  /\ ad_stop = FALSE
  /\ ad_loop = NoRotationThread(FALSE)
  /\ sinceStop = [checks |-> 0, rotations |-> 0]

(***************************************************************************)
(* Threads and locks: HealthChecker._lock, AntiDetectEngine._ua_lock and   *)
(* TokenBucketRateLimiter._lock, and the calls that take them              *)
(***************************************************************************)
\* the threads that call into the three objects at once
Threads == 1..MaxThreads

\* health_checker.py line 60, anti_detect.py lines 130 and 71
LockNames == {"health", "ua", "rl"}

\* the steps of allow(ip) (anti_detect.py 75-98)
AllowSteps == <<"acquire_rl", "read_bucket", "write_bucket", "release_rl">>

\* the steps of the current_user_agent property (lines 164-167)
ReadSteps == <<"acquire_ua", "read_current", "release_ua">>

\* the steps of rotate_user_agent() (lines 169-179)
RotateSteps == <<"acquire_ua", "choose", "release_ua">>

\* the steps of cleanup() (lines 100-107)
CleanupSteps == <<"acquire_rl", "sweep", "release_rl">>

\* one cycle of _background_loop (lines 209-224) that rotates and cleans up
CycleSteps == <<"wait">> \o RotateSteps \o CleanupSteps

\* the steps of an alert callback that asks the monitor for its summary (or
\* its metrics) from inside _fire_alert (lines 138-147)
CallbackSteps == <<"callback_acquire", "callback_summarize", "callback_release">>

CheckStepsUnderLock ==
  <<"acquire_health", "probe_http", "probe_socks", "write_flags", "update">>
    \o CallbackSteps \o <<"release_health">>

CheckStepsTwoBlocks ==
  <<"probe_http", "probe_socks", "acquire_health", "write_flags", "release_health",
    "acquire_health", "update">> \o CallbackSteps \o <<"release_health">>

\* the steps of _check_backend (health_checker.py 108-132): the probes, then
\* inside the lock the assignments of the results (116-120) and the counter
\* with its alert (122-132)
CheckSteps ==
  <<"probe_http", "probe_socks", "acquire_health", "write_flags", "update">>
    \o CallbackSteps \o <<"release_health">>

\* the steps of get_health_summary() (lines 151-180); get_metrics() (182-198)
\* reads the same fields of every record inside the same lock
SummarySteps == <<"acquire_health", "summarize", "release_health">>

\* the steps of stop_process_by_pid (utils.py 180-209): signals and polls, no lock
StopProcessSteps == <<"signal", "poll", "signal", "poll">>

Ops == {"allow", "read", "rotate", "cleanup", "cycle", "check", "summary", "stop_process"}

Steps(op) ==
  CASE op = "allow" -> AllowSteps
    [] op = "read" -> ReadSteps
    [] op = "rotate" -> RotateSteps
    [] op = "cleanup" -> CleanupSteps
    [] op = "cycle" -> CycleSteps
    [] op = "check" -> CheckSteps
    [] op = "summary" -> SummarySteps
    [] op = "stop_process" -> StopProcessSteps

\* the calls that block: a TCP connect (health_checker.py 97), os.kill and the
\* sleep between polls (utils.py 190-205), Event.wait (anti_detect.py 210)
BlockingSteps == {"probe_http", "probe_socks", "signal", "poll", "wait"}

\* the calls made together in one behaviour: on the limiter, on the engine,
\* on the health checker and the processes, or by the engine's loop
Scenes ==
  [rl |-> {"allow", "cleanup"},
   ua |-> {"read", "rotate"},
   hc |-> {"check", "summary", "stop_process"},
   loop |-> {"cycle", "read"}]

\* a thread that is in no call; last is history: the call it made last
NoOp == [op |-> "none", i |-> 0, ip |-> "", name |-> 0, loc |-> <<>>, seen |-> {}]
NoLast == [op |-> "none", ret |-> <<>>, seen |-> {}]

\* the step the thread is at
StepOf(t) == IF thr[t].op = "none" THEN "none" ELSE Steps(thr[t].op)[thr[t].i]

\* the thread is inside a blocking call
Blocking(t) == StepOf(t) \in BlockingSteps

\* the locks the thread holds
Held(t) == {l \in LockNames : locks[l] = t}

AcquireSteps == {"acquire_rl", "acquire_ua", "acquire_health", "callback_acquire"}
ReleaseSteps == {"release_rl", "release_ua", "release_health", "callback_release"}

LockOf(step) ==
  CASE step \in {"acquire_rl", "release_rl"} -> "rl"
    [] step \in {"acquire_ua", "release_ua"} -> "ua"
    [] step \in {"acquire_health", "release_health",
                 "callback_acquire", "callback_release"} -> "health"

\* the `with` blocks of the lock the thread is inside: the count of an RLock
\* its owner has acquired
Depth(t, l) ==
  LET passed(S) == Cardinality({j \in 1..(thr[t].i - 1) :
                                  /\ Steps(thr[t].op)[j] \in S
                                  /\ LockOf(Steps(thr[t].op)[j]) = l})
  IN  passed(AcquireSteps) - passed(ReleaseSteps)

\* the calls whose result the history keeps
Remembered == {"read"}

\* the thread has gone through the step: on to the next, or the call returns
Advance(t, loc, ret) ==
  IF thr[t].i < Len(Steps(thr[t].op))
  THEN /\ thr' = [thr EXCEPT ![t].i = @ + 1, ![t].loc = loc]
       /\ UNCHANGED last
  ELSE /\ thr' = [thr EXCEPT ![t] = NoOp]
       /\ last' = IF thr[t].op \in Remembered
                  THEN [last EXCEPT ![t] = [op |-> thr[t].op, ret |-> ret,
                                            seen |-> thr[t].seen]]
                  ELSE last

\* the thread has assigned the probe results of its check to the record and
\* not yet the counter: it keeps the record as it found it
MidCheck(u, n) == thr[u].op = "check" /\ thr[u].name = n /\ Len(thr[u].loc) = 3

\* history: the record of a backend as its last completed check, or its
\* registration, left it
LastCompleted(n) ==
  IF \E u \in Threads : MidCheck(u, n)
  THEN thr[CHOOSE u \in Threads : MidCheck(u, n)].loc[3]
  ELSE hc_backends[n]

CompletedSnapshots == {<<n, LastCompleted(n)>> : n \in DOMAIN hc_backends}

\* a call begins: allow(ip), _check_backend of the record of a name, or a call
\* without arguments; a read remembers the values current while it runs
Begin(t, op, ip, name) ==
  /\ thr[t].op = "none"
  /\ op \in Scenes[scene]
  /\ op # "allow" => ip = ""
  /\ op # "check" => name = 0
  /\ (op = "allow" /\ ip = "") =>
       globalRun + Cardinality({u \in Threads : thr[u].op = "allow" /\ thr[u].ip = ""})
         < MaxGlobalRun
  /\ op = "check" =>
       /\ name \in DOMAIN hc_backends
       /\ hcRun[name].run + Cardinality({u \in Threads : thr[u].op = "check"}) < MaxFailures
  /\ thr' = [thr EXCEPT ![t] = [op |-> op, i |-> 1, ip |-> ip, name |-> name, loc |-> <<>>,
                                seen |-> IF op = "read" THEN {current_ua} ELSE {}]]
  /\ UNCHANGED <<locks, last, scene, avail>>
  /\ UNCHANGED <<rlVars, uaVars, hcVars, notThreads>>

\* threading.Lock.acquire: the lock is free
LockFree(l) == locks[l] = 0

ReentrantNone == {}

\* health_checker.py line 60: self._lock = threading.RLock(); the locks of
\* anti_detect.py (lines 71, 130) are threading.Lock()
Reentrant == {"health"}

\* acquire returns: the lock is free, or it is an RLock the thread owns
CanAcquire(t, l) == LockFree(l) \/ (l \in Reentrant /\ locks[l] = t)

\* `with lock:` is entered
Acquire(t) ==
  /\ StepOf(t) \in AcquireSteps
  /\ CanAcquire(t, LockOf(StepOf(t)))
  /\ locks' = [locks EXCEPT ![LockOf(StepOf(t))] = t]
  /\ Advance(t, thr[t].loc, <<>>)
  /\ UNCHANGED <<scene, avail>>
  /\ UNCHANGED <<rlVars, uaVars, hcVars, notThreads>>

\* `with lock:` is left by the end of its block
Release(t) ==
  /\ StepOf(t) \in ReleaseSteps
  /\ locks' = [locks EXCEPT ![LockOf(StepOf(t))] =
                               IF Depth(t, LockOf(StepOf(t))) = 1 THEN 0 ELSE @]
  /\ Advance(t, thr[t].loc, thr[t].loc)
  /\ UNCHANGED <<scene, avail>>
  /\ UNCHANGED <<rlVars, uaVars, hcVars, notThreads>>

\* a blocking call returns; a probe returns its result
Unblock(t) ==
  /\ Blocking(t)
  /\ \E alive \in BOOLEAN :
       Advance(t, IF StepOf(t) = "probe_http" THEN <<alive>>
                  ELSE IF StepOf(t) = "probe_socks" THEN thr[t].loc \o <<alive>>
                  ELSE thr[t].loc, <<>>)
  /\ UNCHANGED <<locks, scene, avail>>
  /\ UNCHANGED <<rlVars, uaVars, hcVars, notThreads>>

\* anti_detect.py 78-84: the clock and the bucket are read
read_bucket(t) ==
  /\ StepOf(t) = "read_bucket"
  /\ Advance(t, BucketOf(thr[t].ip), <<>>)
  /\ UNCHANGED <<locks, scene, avail>>
  /\ UNCHANGED <<rlVars, uaVars, hcVars, notThreads>>

\* lines 87-98 on the bucket that was read: refill, test, spend, write back
StoredFrom(b) ==
  IF Refill(b) >= TokenUnit
  THEN [tokens |-> Refill(b) - TokenUnit, last |-> now]
  ELSE [tokens |-> Refill(b), last |-> now]

write_bucket(t) ==
  /\ StepOf(t) = "write_bucket"
  /\ LET ip == thr[t].ip
         b == thr[t].loc
         ok == Refill(b) >= TokenUnit
     IN  /\ per_ip' = IF ip # ""
                      THEN [k \in DOMAIN per_ip \cup {ip} |->
                              IF k = ip THEN StoredFrom(b) ELSE per_ip[k]]
                      ELSE per_ip
         /\ allowedAt' = IF ip # "" /\ ok
                         THEN [allowedAt EXCEPT ![ip][now] = @ + 1]
                         ELSE allowedAt
         /\ globalRun' = IF ip = "" /\ ok THEN globalRun + 1 ELSE globalRun
         /\ Advance(t, <<ok>>, <<ok>>)
  /\ UNCHANGED <<rate, burst, now, rlRemoved>>
  /\ UNCHANGED <<locks, scene, avail>>
  /\ UNCHANGED <<uaVars, hcVars, notThreads>>

\* lines 103-107 with the default max_age
sweep(t) ==
  /\ StepOf(t) = "sweep"
  /\ CleanupBuckets(DefaultMaxAge)
  /\ Advance(t, <<>>, <<>>)
  /\ UNCHANGED <<locks, scene, avail>>
  /\ UNCHANGED <<uaVars, hcVars, notThreads>>

ReadValueStale == uaLast.before

\* line 167: `return self._current_ua`
ReadValue == current_ua

read_current(t) ==
  /\ StepOf(t) = "read_current"
  /\ Advance(t, ReadValue, <<>>)
  /\ UNCHANGED <<locks, scene, avail>>
  /\ UNCHANGED <<rlVars, uaVars, hcVars, notThreads>>

\* lines 172-179; the IndexError of random.choice leaves the `with` block,
\* which releases the lock, and ends the call
choose(t) ==
  /\ StepOf(t) = "choose"
  /\ \/ /\ RotateOk
        /\ thr' = [u \in Threads |->
                     IF u = t THEN [thr[t] EXCEPT !.i = @ + 1, !.loc = current_ua']
                     ELSE IF thr[u].op = "read"
                     THEN [thr[u] EXCEPT !.seen = @ \cup {current_ua'}]
                     ELSE thr[u]]
        /\ UNCHANGED <<locks, last>>
     \/ /\ RotateRaise
        /\ thr' = [thr EXCEPT ![t] = NoOp]
        /\ UNCHANGED last
        /\ locks' = [l \in LockNames |-> IF locks[l] = t THEN 0 ELSE locks[l]]
  /\ UNCHANGED <<scene, avail>>
  /\ UNCHANGED <<rlVars, hcVars, notThreads>>

\* health_checker.py 116-120: the results of the two probes are assigned to
\* the record (with the latencies and last_check, which the model leaves out)
write_flags(t) ==
  /\ StepOf(t) = "write_flags"
  /\ hc_backends' = [hc_backends EXCEPT ![thr[t].name].http_alive = thr[t].loc[1],
                                        ![thr[t].name].socks_alive = thr[t].loc[2]]
  /\ Advance(t, <<thr[t].loc[1], thr[t].loc[2], hc_backends[thr[t].name]>>, <<>>)
  /\ UNCHANGED <<min_healthy, on_alert, hcRun>>
  /\ UNCHANGED <<locks, scene, avail>>
  /\ UNCHANGED <<rlVars, uaVars, notThreads>>

\* health_checker.py 122-132: `if backend.is_healthy` reads the flags of the
\* record; the counter, the alert
update(t) ==
  /\ StepOf(t) = "update"
  /\ CheckBackend(thr[t].name, hc_backends[thr[t].name].http_alive,
                  hc_backends[thr[t].name].socks_alive)
  /\ thr' = [thr EXCEPT
               ![t].i = IF CallbackCalled(hc_backends[thr[t].name],
                                          hc_backends[thr[t].name].http_alive,
                                          hc_backends[thr[t].name].socks_alive)
                        THEN @ + 1 ELSE @ + 1 + Len(CallbackSteps),
               ![t].loc = <<thr[t].loc[1], thr[t].loc[2]>>]
  /\ UNCHANGED last
  /\ UNCHANGED <<locks, scene, avail>>
  /\ UNCHANGED <<rlVars, uaVars, notThreads>>

\* lines 159-166: what the summary reports of one record
Reported(b) ==
  [healthy |-> is_healthy(b), http_alive |-> b.http_alive, socks_alive |-> b.socks_alive,
   consecutive_failures |-> b.consecutive_failures]

\* lines 138-147: the callback got the alert of the record (143-145) and
\* calls get_health_summary() on the monitor (154-180): what it is given and
\* what the summary reports of the records
callback_summarize(t) ==
  /\ StepOf(t) = "callback_summarize"
  /\ Advance(t, <<thr[t].loc[1], thr[t].loc[2],
                  Reported(hc_backends[thr[t].name]),
                  {<<n, Reported(hc_backends[n])>> : n \in DOMAIN hc_backends}>>, <<>>)
  /\ UNCHANGED <<locks, scene, avail>>
  /\ UNCHANGED <<rlVars, uaVars, hcVars, notThreads>>

\* lines 154-180: the status and what is reported of every record (the third
\* local is history: the records as completed checks had left them when the
\* summary read them)
summarize(t) ==
  /\ StepOf(t) = "summarize"
  /\ Advance(t, <<HealthSummary.status,
                  {<<n, Reported(hc_backends[n])>> : n \in DOMAIN hc_backends},
                  CompletedSnapshots>>, <<>>)
  /\ UNCHANGED <<locks, scene, avail>>
  /\ UNCHANGED <<rlVars, uaVars, hcVars, notThreads>>

\* what the bucket of ip would give out now
Available(ip) == Refill(BucketOf(ip))

\* the clock moves while no call is in progress
ThreadsTick ==
  /\ scene = "rl"
  /\ \A t \in Threads : thr[t].op = "none"
  /\ now < MaxThreadTicks
  /\ now' = now + 1
  /\ globalRun' = 0
  /\ avail' = [ip \in Ips |-> Min(burst * TokenUnit,
                                  BucketOf(ip).tokens + (now + 1 - BucketOf(ip).last) * rate)]
  /\ UNCHANGED <<rate, burst, per_ip, allowedAt, rlRemoved>>
  /\ UNCHANGED <<locks, thr, last, scene>>
  /\ UNCHANGED <<uaVars, hcVars, notThreads>>

\* the objects after construction, no thread in any call
IdleThreads ==
  /\ locks = [l \in LockNames |-> 0]
  /\ thr = [t \in Threads |-> NoOp]
  /\ last = [t \in Threads |-> NoLast]
  /\ scene = "rl"
  /\ avail = [ip \in Ips |-> 0]

(***************************************************************************)
(* main() of `proxy_stack.py start [--foreground]` (lines 319-377) and the  *)
(* handler setup_signals() installs for SIGTERM and SIGINT (lines 269-278). *)
(* main.pc is "action" in actions[args.action]() (line 357), "loop" in the  *)
(* foreground loop (364-368), "giving_up" in its orch.stop() (370),         *)
(* "handler" in _handler (271-275), "except" in the orch.stop() of the      *)
(* except clause (374), "exited" when the process has ended.                *)
(***************************************************************************)

\* lines 354-357: setup_signals() has run and the action is about to be called
MainStarts(foreground) == [NoMain EXCEPT !.pc = "action", !.foreground = foreground]

\* the try block of lines 363-371
InsideTry == {"loop", "giving_up"}

\* where a handler can be entered: Python runs it in the main thread, between
\* two bytecodes of whatever main() is executing
Interruptible == {"action", "loop", "giving_up", "handler", "except"}

\* the process ends: its daemon threads and its monitoring server end with it
Exits(how, code, handled) ==
  /\ main' = [main EXCEPT !.pc = "exited", !.how = how, !.code = code, !.handled = handled]
  /\ procs' = procs \ {OrchPid}
  /\ hc_thread' = FALSE
  /\ ad_thread' = FALSE
  /\ monitoring' = IF monitoring = "serving" THEN "stopped" ELSE monitoring
  /\ UNCHANGED <<orch, config, stackpid, launched, attempted, reported>>
  /\ UNCHANGED <<pidfile, st, sigs, hcVars, notOrchMain>>

\* lines 357-361 and 377: start() has returned; main() returns its result, or
\* enters the foreground loop after a start that returned 0
action_returns ==
  /\ main.pc = "action"
  /\ orch.pc = "done"
  /\ IF main.foreground /\ orch.ret = 0
     THEN /\ main' = [main EXCEPT !.pc = "loop"]
          /\ UNCHANGED <<procVars, hcVars, orchVars, notOrchMain>>
     ELSE Exits("returned", orch.ret, main.handled)

\* lines 365-370: a turn of the loop finds every registered backend unhealthy
\* (what the probes of the health checker's thread have found is not followed:
\* any number of the backends may be healthy) and calls stop(); a turn that
\* finds a healthy backend changes nothing
loop_gives_up ==
  /\ main.pc = "loop"
  /\ \E healthy_backends \in 0..Cardinality(DOMAIN hc_backends) :
       /\ healthy_backends = 0
       /\ Cardinality(DOMAIN hc_backends) > 0
  /\ main' = [main EXCEPT !.pc = "giving_up"]
  /\ EnterStop

\* lines 370-371 and 374-375: the stop() of the loop or of the except clause
\* has returned: return 1, return 0
main_stop_returns ==
  /\ main.pc \in {"giving_up", "except"}
  /\ orch.pc = "done"
  /\ Exits("returned", IF main.pc = "giving_up" THEN 1 ELSE 0, main.handled)

\* lines 271-274: SIGTERM or SIGINT is delivered and _handler calls stop();
\* what main() was executing waits below the handler's frame
deliver_signal ==
  /\ main.pc \in Interruptible
  /\ orch.pc # "raised"
  /\ main.signals < MaxSignals
  /\ main' = [main EXCEPT !.pc = "handler", !.signals = @ + 1, !.handled = FALSE,
                          !.inside = IF main.pc = "handler" THEN @ ELSE main.pc]
  /\ EnterStop

\* line 275 and lines 372-374: the handler's stop() has returned and
\* sys.exit(0) raises SystemExit through the frames below it: the except
\* clause of the foreground loop catches it and calls stop() once more;
\* anywhere else it ends the process with status 0
handler_returns ==
  /\ main.pc = "handler"
  /\ orch.pc = "done"
  /\ IF main.inside \in InsideTry
     THEN /\ main' = [main EXCEPT !.pc = "except", !.handled = TRUE]
          /\ EnterStop
     ELSE Exits("exit", 0, TRUE)

\* an exception that start() or stop() lets through (the OverflowError of a
\* manager's stop, the error of a report) is neither KeyboardInterrupt nor
\* SystemExit: nothing in the handler or in main() catches it, and the
\* process ends with the traceback
main_raises ==
  /\ main.pc \in Interruptible
  /\ orch.pc = "raised"
  /\ Exits("exception", 1, main.handled)

(***************************************************************************)
(* The foreground loop of main() beside the health checker's thread, with  *)
(* the seconds each of them takes                                          *)
(***************************************************************************)
\* self._tcp_timeout = 3.0: the seconds one probe waits for its connect
TcpTimeout == 3

\* self._check_interval = 5.0: the wait between two polling cycles
CheckInterval == 5

\* time.sleep(5) of the foreground loop
WatchdogSleep == 5

\* the seconds followed: the turns of the loop and one more check
MaxClock == MaxTurns * WatchdogSleep + 2 * TcpTimeout

\* main() lines 367-369: the test on the summary the loop has just read
WatchdogFires ==
  /\ HealthSummary.healthy_backends = 0
  /\ HealthSummary.total_backends > 0

\* main.t is the second the loop last woke up at, main.polled the second the
\* thread's last check or wait ended at; the thread may end a step at second
\* s while the loop sleeps until main.t + WatchdogSleep
BeforeNextRead(s) ==
  /\ s >= main.t
  /\ s <= MaxClock
  /\ main.pc = "loop" => s <= main.t + WatchdogSleep

\* the loop wakes up with the thread inside a check or a wait that lasts
\* until then, or ended; the steps between them take no time
ThreadAt(s) ==
  /\ hc_loop.pc \notin {"while", "for"}
  /\ hc_loop.pc = "call" => main.polled + 2 * TcpTimeout >= s
  /\ hc_loop.pc = "wait" => main.polled + CheckInterval >= s

\* health_checker.py line 208 with the d seconds the two probes took: each
\* returns at once or within _tcp_timeout
watched_check(http_alive, socks_alive, d) ==
  /\ hc_loop.pc = "call"
  /\ BeforeNextRead(main.polled + d)
  /\ CheckBackend(hc_loop.i, http_alive, socks_alive)
  /\ hc_loop' = [hc_loop EXCEPT !.pc = "for", !.i = @ + 1]
  /\ main' = [main EXCEPT !.polled = @ + d]
  /\ UNCHANGED <<hc_stop, ad_stop, ad_loop, sinceStop>>
  /\ UNCHANGED <<rlVars, uaVars, thrVars, procVars, orchVars, reloadVars>>

\* health_checker.py line 210: the wait returns when the event is set, or
\* after _check_interval
watched_wait ==
  /\ hc_loop.pc = "wait"
  /\ \E s \in {IF is_set(hc_stop) THEN (IF main.polled >= main.t THEN main.polled ELSE main.t)
                                    ELSE main.polled + CheckInterval} :
       /\ BeforeNextRead(s)
       /\ main' = [main EXCEPT !.polled = s]
  /\ hc_loop' = [hc_loop EXCEPT !.pc = "while"]
  /\ UNCHANGED <<hc_stop, ad_stop, ad_loop, sinceStop>>
  /\ UNCHANGED <<rlVars, uaVars, hcVars, thrVars, procVars, orchVars, reloadVars>>

\* main() lines 364-369: time.sleep(5), the summary, and the test fails: the
\* loop goes round
watchdog_turn ==
  /\ main.pc = "loop"
  /\ main.t + WatchdogSleep <= MaxTurns * WatchdogSleep
  /\ ThreadAt(main.t + WatchdogSleep)
  /\ ~WatchdogFires
  /\ main' = [main EXCEPT !.t = @ + WatchdogSleep]
  /\ UNCHANGED <<hcVars, loopVars>>
  /\ UNCHANGED <<rlVars, uaVars, thrVars, procVars, orchVars, reloadVars>>

\* main() lines 364-370: time.sleep(5), the summary, and no backend is
\* healthy: the loop logs and calls orch.stop()
watchdog_gives_up ==
  /\ main.pc = "loop"
  /\ main.t + WatchdogSleep <= MaxTurns * WatchdogSleep
  /\ ThreadAt(main.t + WatchdogSleep)
  /\ WatchdogFires
  /\ main' = [main EXCEPT !.t = @ + WatchdogSleep, !.pc = "giving_up"]
  /\ UNCHANGED <<hcVars, loopVars>>
  /\ UNCHANGED <<rlVars, uaVars, thrVars, procVars, orchVars, reloadVars>>

\* main() line 370, proxy_stack.py line 195: stop() stops the health checker
\* (health_checker.py lines 219-222); what stop() does to the processes is
\* followed by the orchestrator's actions
watchdog_stops ==
  /\ main.pc = "giving_up"
  /\ main.inside = "none"
  /\ ~hc_loop.joining
  /\ hc_stop' = TRUE
  /\ hc_loop' = [hc_loop EXCEPT !.joining = TRUE]
  /\ main' = [main EXCEPT !.inside = "stop"]
  /\ UNCHANGED <<ad_stop, ad_loop, sinceStop>>
  /\ UNCHANGED <<rlVars, uaVars, hcVars, thrVars, procVars, orchVars, reloadVars>>

\* main() line 371: return 1
watchdog_returns ==
  /\ main.pc = "giving_up"
  /\ main.inside = "stop"
  /\ hc_loop.pc = "none"
  /\ Exits("returned", 1, main.handled)

(***************************************************************************)
(* Specifications: one per component, the other components idle            *)
(***************************************************************************)
\* the engine before anything is loaded into it
IdleUA ==
  /\ ua_pool = <<>>
  /\ current_ua = <<>>
  /\ uaLast = [op |-> "none", before |-> <<>>, raised |-> FALSE, ret |-> <<>>]

\* a rate limiter nobody calls
IdleRL ==
  /\ rate = 0
  /\ burst = 1
  /\ per_ip = <<>>
  /\ now = 0
  /\ allowedAt = [ip \in Ips \ {""} |-> [t \in 0..MaxTime |-> 0]]
  /\ globalRun = 0
  /\ rlRemoved = {}

\* a health checker nobody uses
IdleHC ==
  /\ hc_backends = <<>>
  /\ min_healthy = 0
  /\ on_alert = FALSE
  /\ hcRun = <<>>

\* components as some earlier run or a crash left them; a live process that a
\* PID file names may be another user's
InitProc ==
  /\ procs \in SUBSET Pids
  /\ pidfile \in [Components -> PidFileValues]
  /\ st = NoStop
  /\ sigs = {}
  /\ reloaded = NoReload
  /\ foreign \in SUBSET {p \in procs : \E c \in Components : pidfile[c] = Holds(p)}

\* no process, no PID file
IdleProc ==
  /\ procs = {}
  /\ pidfile = [c \in Components |-> Absent]
  /\ st = NoStop
  /\ sigs = {}
  /\ reloaded = NoReload
  /\ foreign = {}

\* a clean machine, or one on which an earlier run left one PID file, of a
\* component or its own, behind
InitLeftovers ==
  /\ procs \in {{OrchPid} \cup S : S \in SUBSET Pids}
  /\ pidfile \in {f \in [Components -> PidFileValues] :
                     Cardinality({c \in Components : f[c] # Absent}) <= 1}
  /\ stackpid \in {Absent} \cup {Holds(p) : p \in Pids}
  /\ stackpid = Absent \/ \A c \in Components : pidfile[c] = Absent
  /\ st = NoStop
  /\ sigs = {}
  /\ reloaded = NoReload
  /\ foreign \in SUBSET {p \in procs \cap Pids :
                           stackpid = Holds(p) \/ \E c \in Components : pidfile[c] = Holds(p)}
  /\ orch = NoCall
  /\ config \in [monitoring_enabled : BOOLEAN, ua_rotation_enabled : BOOLEAN]
  /\ monitoring = "none"
  /\ hc_thread = FALSE
  /\ ad_thread = FALSE
  /\ launched = {}
  /\ attempted = {}
  /\ reported = {}

\* calls made on an orchestrator, with no main() of a `start` command followed
InitOrch ==
  /\ InitLeftovers
  /\ main = NoMain

\* a machine on which nothing was ever started
InitCleanOrch ==
  /\ main = NoMain
  /\ procs = {OrchPid}
  /\ pidfile = [c \in Components |-> Absent]
  /\ st = NoStop
  /\ sigs = {}
  /\ reloaded = NoReload
  /\ foreign = {}
  /\ orch = NoCall
  /\ config \in [monitoring_enabled : BOOLEAN, ua_rotation_enabled : BOOLEAN]
  /\ monitoring = "none"
  /\ hc_thread = FALSE
  /\ ad_thread = FALSE
  /\ stackpid = Absent
  /\ launched = {}
  /\ attempted = {}
  /\ reported = {}

\* an orchestrator nobody calls
IdleOrchestrator ==
  /\ orch = NoCall
  /\ config = [monitoring_enabled |-> FALSE, ua_rotation_enabled |-> FALSE]
  /\ monitoring = "none"
  /\ hc_thread = FALSE
  /\ ad_thread = FALSE
  /\ stackpid = Absent
  /\ launched = {}
  /\ attempted = {}
  /\ reported = {}

\* an orchestrator nobody calls, in a process whose main() is not followed
IdleOrch == IdleOrchestrator /\ main = NoMain

vars == <<rlVars, uaVars, hcVars, procVars, orchVars, loopVars, reloadVars, thrVars, mainVars>>

NextUA == rotate_user_agent

InitSpecUA == IdleRL /\ InitUA /\ IdleHC /\ IdleProc /\ IdleOrch /\ IdleLoops /\ IdleThreads

SpecUA == InitSpecUA /\ [][NextUA]_vars

NextRL ==
  \/ \E ip \in Ips : Allow(ip)
  \/ \E max_age \in MaxAges : Cleanup(max_age)
  \/ Tick

\* the limiter as the engine uses it: allow() from the request path, and
\* cleanup() with its default max_age from the loop (anti_detect.py 221); a
\* tick of this clock stands for half the default max_age
NextLoopRL ==
  \/ \E ip \in Ips : Allow(ip)
  \/ Cleanup(LoopMaxAge)
  \/ Tick

InitSpecRL == InitRL /\ IdleUA /\ IdleHC /\ IdleProc /\ IdleOrch /\ IdleLoops /\ IdleThreads

SpecRL == InitSpecRL /\ [][NextRL]_vars

SpecLoopRL == InitSpecRL /\ [][NextLoopRL]_vars

\* the orchestrator registers the backends of instances 0..instance_count-1
NextHC ==
  \/ \E k \in 1..instance_count : register_backends(0..(k - 1))
  \/ set_alert_callback
  \/ \E name \in BackendNames : \E h, k \in BOOLEAN : _check_backend(name, h, k)
  \/ get_health_summary

InitSpecHC == IdleRL /\ IdleUA /\ InitHC /\ IdleProc /\ IdleOrch /\ IdleLoops /\ IdleThreads

SpecHC == InitSpecHC /\ [][NextHC]_vars

\* the components stopped one at a time, in any order, while processes exit
NextProc ==
  \/ \E c \in Components : ManagerStop(c)
  \/ StopStep
  \/ \E c \in Components : manager_status(c)
  \/ \E p \in Pids : Exit(p)

\* the load balancer reloaded and stopped, in any order, while processes exit
NextReload ==
  \/ \E out \in ReloadOutcomes : reload(out)
  \/ ManagerStop(HAProxy)
  \/ StopStep
  \/ \E p \in Pids \cup {ReloadedPid} : Exit(p)

InitSpecProc == IdleRL /\ IdleUA /\ IdleHC /\ InitProc /\ IdleOrch /\ IdleLoops /\ IdleThreads

SpecReload == InitSpecProc /\ [][NextReload]_vars

SpecProc == InitSpecProc /\ [][NextProc]_vars

\* calls of start() and stop() on one orchestrator, while processes exit
NextOrch ==
  \/ start
  \/ \E out \in StartOutcomes : start_instance(out)
  \/ start_all_returns
  \/ \E out \in HAProxyOutcomes : haproxy_start(out)
  \/ start_services
  \/ stop
  \/ stop_monitoring
  \/ stop_health_checker
  \/ stop_anti_detect
  \/ call_stop
  \/ StopStep
  \/ haproxy_stop_returns
  \/ stop_instance_returns
  \/ stop_raises
  \/ stop_returns
  \/ \E p \in Pids \cup {LaunchedPid(c) : c \in Components} : SeenExit(p)

InitSpecOrch == IdleRL /\ IdleUA /\ IdleHC /\ InitOrch /\ IdleLoops /\ IdleThreads

SpecOrch == InitSpecOrch /\ [][NextOrch]_vars

\* `start`, with --foreground or without, while signals are delivered and
\* processes exit
NextSignals ==
  \/ start
  \/ \E out \in StartOutcomes : start_instance(out)
  \/ start_all_returns
  \/ \E out \in HAProxyOutcomes : haproxy_start(out)
  \/ start_services
  \/ stop_monitoring
  \/ stop_health_checker
  \/ stop_anti_detect
  \/ call_stop
  \/ StopStep
  \/ haproxy_stop_returns
  \/ stop_instance_returns
  \/ stop_raises
  \/ stop_returns
  \/ action_returns
  \/ loop_gives_up
  \/ main_stop_returns
  \/ deliver_signal
  \/ handler_returns
  \/ main_raises
  \/ \E p \in Pids \cup {LaunchedPid(c) : c \in Components} : SeenExit(p)

InitSignals ==
  /\ InitLeftovers
  /\ foreign = {}
  /\ \E foreground \in BOOLEAN : main = MainStarts(foreground)

InitSpecSignals == IdleRL /\ IdleUA /\ IdleHC /\ InitSignals /\ IdleLoops /\ IdleThreads

SpecSignals == InitSpecSignals /\ [][NextSignals]_vars

\* start() or stop() on a machine where nothing was ever started, and stop()
\* called again after it; no PID file holds what the stack did not write
NextStops ==
  \/ start
  \/ \E out \in StartOutcomes : start_instance(out)
  \/ start_all_returns
  \/ \E out \in HAProxyOutcomes : haproxy_start(out)
  \/ start_services
  \/ stop
  \/ stop_again
  \/ stop_monitoring
  \/ stop_health_checker
  \/ stop_anti_detect
  \/ call_stop
  \/ StopStep
  \/ haproxy_stop_returns
  \/ stop_instance_returns
  \/ stop_returns
  \/ \E p \in {LaunchedPid(c) : c \in Components} : SeenExit(p)

InitSpecStops ==
  IdleRL /\ IdleUA /\ IdleHC /\ IdleLoops /\ InitCleanOrch /\ IdleThreads

SpecStops == InitSpecStops /\ [][NextStops]_vars

\* the pools of the engines whose threads are followed
ThreadPools == {LoadPool(file) : file \in LoopFiles}

InitThreads ==
  /\ locks = [l \in LockNames |-> 0]
  /\ thr = [t \in Threads |-> NoOp]
  /\ last = [t \in Threads |-> NoLast]
  /\ scene \in DOMAIN Scenes
  /\ IF scene = "rl" THEN InitRL ELSE IdleRL
  /\ avail = [ip \in Ips |-> Available(ip)]
  /\ IF scene \in {"ua", "loop"}
     THEN /\ ua_pool \in ThreadPools
          /\ current_ua \in (IF ua_pool # <<>> THEN Range(ua_pool) ELSE {<<>>})
          /\ uaLast = [op |-> "none", before |-> <<>>, raised |-> FALSE, ret |-> <<>>]
     ELSE IdleUA
  /\ IF scene = "hc"
     THEN /\ hc_backends = [n \in 0..0 |-> NewBackend]
          /\ hcRun = [n \in 0..0 |-> NoRun]
          /\ min_healthy = 1
          /\ on_alert \in BOOLEAN
     ELSE IdleHC

\* threads calling into the limiter, the engine and the health checker
NextThreads ==
  \/ \E t \in Threads : \E op \in Ops : \E ip \in Ips : \E name \in BackendNames :
       Begin(t, op, ip, name)
  \/ \E t \in Threads : Acquire(t)
  \/ \E t \in Threads : Release(t)
  \/ \E t \in Threads : Unblock(t)
  \/ \E t \in Threads : read_bucket(t)
  \/ \E t \in Threads : write_bucket(t)
  \/ \E t \in Threads : sweep(t)
  \/ \E t \in Threads : read_current(t)
  \/ \E t \in Threads : choose(t)
  \/ \E t \in Threads : write_flags(t)
  \/ \E t \in Threads : update(t)
  \/ \E t \in Threads : callback_summarize(t)
  \/ \E t \in Threads : summarize(t)
  \/ ThreadsTick

InitSpecThreads == IdleProc /\ IdleOrch /\ IdleLoops /\ InitThreads

SpecThreads == InitSpecThreads /\ [][NextThreads]_vars

\* a thread started and stopped by its owner, in any order
NextLoops ==
  \/ \E k \in 1..MaxBackends : loop_register_backends(0..(k - 1))
  \/ loop_set_alert_callback
  \/ health_start
  \/ health_stop
  \/ health_stop_returns
  \/ HealthLoopStep
  \/ rotation_start
  \/ rotation_stop
  \/ rotation_stop_returns
  \/ RotationLoopStep

\* start() and stop() of a health checker in any order, a stop() giving up
\* its join where the check in flight outlasts it
NextPolling ==
  \/ \E k \in 1..MaxBackends : loop_register_backends(0..(k - 1))
  \/ loop_set_alert_callback
  \/ health_start
  \/ health_stop
  \/ health_stop_returns
  \/ health_join_times_out
  \/ HealthLoopStep
  \/ OrphanStep

InitPolling ==
  /\ InitHealthLoop
  /\ hc_stop = FALSE
  /\ ad_stop = FALSE
  /\ sinceStop = [checks |-> 0, rotations |-> 0]

InitSpecPolling == IdleRL /\ IdleHC /\ IdleProc /\ IdleOrch /\ InitPolling /\ IdleThreads

SpecPolling == InitSpecPolling /\ [][NextPolling]_vars

NextWatchdog ==
  \/ health_while
  \/ health_for
  \/ \E http_alive, socks_alive \in BOOLEAN : \E d \in 0..(2 * TcpTimeout) :
       watched_check(http_alive, socks_alive, d)
  \/ watched_wait
  \/ watchdog_turn
  \/ watchdog_gives_up
  \/ watchdog_stops
  \/ health_stop_returns
  \/ watchdog_returns

\* start_services has registered the backends and started the thread (lines
\* 159-162), and main() enters its foreground loop (line 363)
InitWatchdog ==
  /\ \E k \in 1..MaxBackends :
       /\ hc_backends = [n \in 0..(k - 1) |-> NewBackend]
       /\ hcRun = [n \in 0..(k - 1) |-> NoRun]
  /\ min_healthy \in 0..MaxMinHealthy
  /\ on_alert = FALSE
  /\ main = [MainStarts(TRUE) EXCEPT !.pc = "loop"]
  /\ hc_loop = [NoHealthThread EXCEPT !.pc = "while"]
  /\ ad_loop = [NoRotationThread(FALSE) EXCEPT !.pc = "absent"]
  /\ hc_stop = FALSE
  /\ ad_stop = FALSE
  /\ sinceStop = [checks |-> 0, rotations |-> 0]

InitSpecWatchdog == IdleRL /\ IdleUA /\ IdleProc /\ IdleOrchestrator /\ InitWatchdog /\ IdleThreads

SpecWatchdog == InitSpecWatchdog /\ [][NextWatchdog]_vars

InitSpecLoops == IdleRL /\ IdleHC /\ IdleProc /\ IdleOrch /\ InitLoops /\ IdleThreads

SpecLoops == InitSpecLoops /\ [][NextLoops]_vars

\* the scheduler lets each thread run: a thread that can take a step takes one
FairLoops ==
  SpecLoops /\ WF_vars(HealthLoopStep) /\ WF_vars(RotationLoopStep)

(***************************************************************************)
(* Claims about the rate limiter                                           *)
(***************************************************************************)
RECURSIVE WindowCount(_, _, _)
\* the allow(ip) calls that returned True at ticks t1..t2
WindowCount(ip, t1, t2) ==
  IF t1 > t2 THEN 0 ELSE allowedAt[ip][t1] + WindowCount(ip, t1 + 1, t2)

\* ceil(x / TokenUnit) for x in 1/TokenUnit of a token
CeilTokens(x) == (x + TokenUnit - 1) \div TokenUnit

\* C1: for a non-empty key whose bucket no cleanup() has removed, the allow()
\* calls returning True inside any window of length T = t2 - t1 number at most
\* ceil(burst + rate * T).
C1_TokenBucketBound ==
  \A ip \in Ips \ {""} :
    ip \notin rlRemoved =>
      \A t1 \in 0..MaxTime : \A t2 \in t1..MaxTime :
        WindowCount(ip, t1, t2) <= CeilTokens(burst * TokenUnit + rate * (t2 - t1))

\* C1 witness: a key that was refused at least once and still used up the whole
\* allowance of a window of two ticks or more, with refill spread over the window.
C1_Witness ==
  \E ip \in Ips \ {""} :
    /\ ip \notin rlRemoved
    /\ rate > 0
    /\ now >= 2
    /\ allowedAt[ip][now] >= 1
    /\ allowedAt[ip][0] = burst
    /\ WindowCount(ip, 0, now) = CeilTokens(burst * TokenUnit + rate * now)

\* C2: the global key "" has a persisted bucket: with no time elapsed, at most
\* `burst` calls of allow("") return True and the next one returns False.
C2_GlobalKeyLimited == globalRun <= burst

(***************************************************************************)
(* Claims about the User-Agent rotation                                    *)
(***************************************************************************)
\* C6: with a pool of two or more loaded entries (not necessarily distinct),
\* every rotate_user_agent() call returns without raising, and returns and
\* installs a value different from the current value before the call.
C6_RotateDistinct ==
  (uaLast.op = "rotate" /\ Len(ua_pool) >= 2) =>
    /\ ~uaLast.raised
    /\ uaLast.ret # uaLast.before
    /\ current_ua = uaLast.ret

CheckSetsCounter ==
  \A n \in DOMAIN hc_backends :
    _check_backend(n, hc_backends'[n].http_alive, hc_backends'[n].socks_alive) =>
      hc_backends'[n].consecutive_failures =
        (IF hc_backends'[n].http_alive /\ hc_backends'[n].socks_alive
         THEN 0
         ELSE hc_backends[n].consecutive_failures + 1)

\* the step is a check of backend n (a check stores the results of its probes)
IsCheckOf(n) ==
  _check_backend(n, hc_backends'[n].http_alive, hc_backends'[n].socks_alive)

\* the step is a register_backends call that names backend n
IsRegistrationOf(n) ==
  \E k \in 1..instance_count : n \in 0..(k - 1) /\ register_backends(0..(k - 1))

\* C4 as claimed: a check sets the counter to 0 or adds exactly 1 to it, and
\* no step other than a check of the backend changes the counter of a
\* registered backend.
C4_OnlyChecksChangeCounter ==
  [][/\ CheckSetsCounter
     /\ \A n \in DOMAIN hc_backends :
          hc_backends'[n].consecutive_failures # hc_backends[n].consecutive_failures
            => IsCheckOf(n)]_vars

\* C4 amended: a check sets the counter to 0 or adds exactly 1 to it; the only
\* other step that changes the counter of a registered backend is a
\* register_backends call naming it, which replaces its record by a fresh one
\* with counter 0.
C4_ChecksAndRegistrationChangeCounter ==
  [][/\ CheckSetsCounter
     /\ \A n \in DOMAIN hc_backends :
          hc_backends'[n].consecutive_failures # hc_backends[n].consecutive_failures
            => \/ IsCheckOf(n)
               \/ IsRegistrationOf(n) /\ hc_backends'[n].consecutive_failures = 0]_vars

\* C4 witness: checks have counted two failures of one backend and left the
\* counter of another, healthy one at 0.
C4_Witness ==
  \E n, m \in DOMAIN hc_backends :
    /\ hc_backends[n].consecutive_failures = 2
    /\ hcRun[n].run = 2
    /\ is_healthy(hc_backends[m])
    /\ hc_backends[m].consecutive_failures = 0

\* the backends whose two ports were both alive at their last check
BothPortsAlive ==
  {n \in DOMAIN hc_backends : hc_backends[n].http_alive /\ hc_backends[n].socks_alive}

\* C5: with min_healthy >= 1 the summary reports `down` for no healthy
\* backend, `degraded` for some but fewer than min_healthy, `healthy` for
\* min_healthy or more, together with the healthy count and the total.
C5_SummaryThresholds ==
  min_healthy >= 1 =>
    /\ HealthSummary.healthy_backends = Cardinality(BothPortsAlive)
    /\ HealthSummary.total_backends = Cardinality(DOMAIN hc_backends)
    /\ Cardinality(BothPortsAlive) = 0 => HealthSummary.status = "down"
    /\ (0 < Cardinality(BothPortsAlive) /\ Cardinality(BothPortsAlive) < min_healthy)
         => HealthSummary.status = "degraded"
    /\ Cardinality(BothPortsAlive) >= min_healthy => HealthSummary.status = "healthy"

\* C5 witness: min_healthy = 2 and one healthy backend of three: degraded.
C5_Witness ==
  /\ min_healthy = 2
  /\ Cardinality(DOMAIN hc_backends) = 3
  /\ Cardinality(BothPortsAlive) = 1
  /\ HealthSummary.status = "degraded"

(***************************************************************************)
(* Claims about the stop of a managed process                              *)
(***************************************************************************)
\* C7: a stop of a worker or of the load balancer whose PID file is absent or
\* unparseable, or whose recorded PID is not alive, returns success and sends
\* neither SIGTERM nor SIGKILL; this holds at every call, so also when the call
\* is repeated.
C7_StopOfStoppedSucceeds ==
  st.pre \in {"absent", "garbage", "dead"} =>
    /\ st.pc # "raised"
    /\ sigs = {}
    /\ st.pc = "ret" => st.ret

\* C8: a stop whose process was alive at the SIGTERM and at each of the
\* timeout * 10 polls has sent it SIGKILL when it returns.
C8_KillAfterGracePeriod ==
  (st.pc = "ret" /\ st.polls = GracePolls /\ <<StPid, "TERM", TRUE>> \in sigs) =>
    \E delivered \in BOOLEAN : <<StPid, "KILL", delivered>> \in sigs

\* C8 witness: a stop has returned after all the polls of the grace period
\* found the process alive and the SIGKILL reached it.
C8_Witness ==
  /\ st.pc = "ret"
  /\ st.polls = GracePolls
  /\ <<StPid, "TERM", TRUE>> \in sigs
  /\ <<StPid, "KILL", TRUE>> \in sigs

(***************************************************************************)
(* Claims about the orchestrator                                           *)
(***************************************************************************)
\* C9: when start() has returned failure after its rollback (no worker came
\* up, or the load balancer did not start), no process this start launched is
\* alive, no background loop runs and no PID file of the stack is left.
C9_RollbackLeavesNothing ==
  (orch.pc = "done" /\ orch.op = "start" /\ orch.rollback) =>
    /\ launched \cap procs = {}
    /\ monitoring # "serving"
    /\ ~hc_thread
    /\ ~ad_thread
    /\ stackpid = Absent

\* C10: a stop() that was begun ends by returning, having attempted every one
\* of its steps, and its return value is non-zero exactly when some step
\* reported a failure.
C10_StopAttemptsEveryStep ==
  (orch.stopped /\ orch.pc \in {"done", "raised"}) =>
    /\ orch.pc = "done"
    /\ attempted = StopSteps
    /\ orch.stop_ret # 0 <=> reported # {}

(***************************************************************************)
(* Claims about status and start                                           *)
(***************************************************************************)
\* C11: the status of a managed process says alive exactly when that process
\* is alive, also right after a stop of it has returned, whatever the stop
\* returned.
C11_StatusIsLiveness ==
  (st.pc = "ret" /\ st.pid # {}) =>
    (ManagerStatus(st.comp).alive <=> StPid \in procs)

\* C12: a start() called while proxy-stack.pid names a live process returns 1
\* at once and has done nothing else: no configuration generated, no process
\* launched, no PID file touched, no loop started, nothing registered.
C12_StartRefusesWhenRunning ==
  (orch.op = "start" /\ orch.found # <<>>) =>
    /\ orch.pc = "done"
    /\ orch.ret = 1
    /\ ~orch.generated
    /\ launched = {}
    /\ procs \subseteq orch.found.procs
    /\ pidfile = orch.found.pidfile
    /\ stackpid = orch.found.stackpid
    /\ monitoring = orch.found.monitoring
    /\ hc_thread = orch.found.hc_thread
    /\ ad_thread = orch.found.ad_thread
    /\ hc_backends = orch.found.hc_backends

\* C13: a start of a worker or of the load balancer reports failure whenever
\* the binary could not be run, the launcher exited without a daemon (its
\* status non-zero), or the PID file, when it is checked, names no live process.
C13_StartFailsWithoutLiveProcess ==
  [][/\ \A out \in StartOutcomes :
          (/\ start_instance(out)
           /\ \/ out \in {"spawn_error", "exited"}
              \/ ~PidFileSaysUp(<<"3proxy", orch.i>>))
          => orch'.ok_count = orch.ok_count
     /\ \A out \in HAProxyOutcomes :
          (/\ haproxy_start(out)
           /\ \/ out = "failed"
              \/ ~PidFileSaysUp(HAProxy))
          => orch'.pc = "stop_monitoring"]_vars

(***************************************************************************)
(* More claims about the rate limiter                                      *)
(***************************************************************************)
\* C14: every stored bucket holds at least 0 and at most burst tokens, after
\* any sequence of allow() and cleanup() calls.
C14_TokensWithinBurst ==
  \A ip \in DOMAIN per_ip :
    /\ per_ip[ip].tokens >= 0
    /\ per_ip[ip].tokens <= burst * TokenUnit

\* C14 witness: after a cleanup that removed a bucket, one stored bucket is
\* empty and another was refilled up to the cap before its last token was taken.
C14_Witness ==
  /\ rlRemoved # {}
  /\ rate > 0
  /\ \E ip, other \in DOMAIN per_ip :
       /\ per_ip[ip].tokens = 0
       /\ per_ip[other].tokens = (burst - 1) * TokenUnit
       /\ per_ip[other].last = now
       /\ per_ip[other].tokens > 0

\* C15: cleanup(max_age) removes exactly the buckets last touched more than
\* max_age before now, leaves every other bucket as it was, and returns the
\* number of buckets it removed.
C15_CleanupRemovesExpired ==
  [][\A max_age \in MaxAges :
       (now' = now /\ allowedAt' = allowedAt /\ globalRun' = globalRun /\ Cleanup(max_age)) =>
         /\ DOMAIN per_ip' = {ip \in DOMAIN per_ip : per_ip[ip].last + max_age >= now}
         /\ \A ip \in DOMAIN per_ip' : per_ip'[ip] = per_ip[ip]
         /\ CleanupResult(max_age) = Cardinality(DOMAIN per_ip) - Cardinality(DOMAIN per_ip')]_vars

\* C15 witness: a bucket that a cleanup removed is gone while a bucket touched
\* exactly max_age ago is stored.
C15_Witness ==
  /\ \E ip \in rlRemoved : ip \notin DOMAIN per_ip
  /\ \E other \in DOMAIN per_ip :
       \E max_age \in MaxAges \ {0} : per_ip[other].last + max_age = now

(***************************************************************************)
(* Claims about the background threads                                     *)
(***************************************************************************)
\* C16: when the alert callback raises an exception, _check_backend returns as
\* after a callback that returned: the record holds the probe results and a
\* counter of 3, the thread goes on to the next backend of the list, and the
\* counter of a record whose callback raised goes on counting the failed checks
\* of its run.
C16_CallbackExceptionCaught ==
  /\ [][\A h, k \in BOOLEAN :
          health_check(h, k, "raises") =>
            /\ hc_backends' = [hc_backends EXCEPT
                                 ![hc_loop.i] = CheckedBackend(@, h, k)]
            /\ hc_backends'[hc_loop.i].consecutive_failures = AlertThreshold
            /\ hc_loop'.pc = "for"
            /\ hc_loop'.i = hc_loop.i + 1
            /\ hc_loop'.n = hc_loop.n]_vars
  /\ [](\A name \in hc_loop.caught :
          /\ hc_backends[name].consecutive_failures >= AlertThreshold
          /\ hc_backends[name].consecutive_failures = hcRun[name].run)

\* C16 witness: the callback raised for backend 0; a cycle later its counter is
\* 4 and the thread has gone on to check backend 1.
C16_Witness ==
  /\ 0 \in hc_loop.caught
  /\ hc_backends[0].consecutive_failures = AlertThreshold + 1
  /\ hc_loop.pc = "for"
  /\ hc_loop.i = 2

\* C17: under fair scheduling, once stop() has set the stop event the thread of
\* the health checker and the thread of the engine each come to an end; after
\* the event is set the health thread begins at most one more backend check and
\* the engine's thread makes at most one more rotation.
C17_LoopsExitAfterStop ==
  /\ hc_stop ~> ~HealthRunning
  /\ ad_stop ~> ~RotationRunning
  /\ [](sinceStop.checks <= 1 /\ sinceStop.rotations <= 1)

\* C17 witness: the health thread has ended after a stop() that was called
\* between its test of the event and the check that followed.
C17_Witness ==
  /\ hc_stop
  /\ hc_loop.joining
  /\ hc_loop.pc = "exited"
  /\ hc_loop.i < hc_loop.n
  /\ sinceStop.checks = 1

\* the same for the engine: its thread has ended after a stop() that was called
\* between its test of the event and the rotation that followed
RotationEndedAfterStop ==
  /\ ad_stop
  /\ ad_loop.joining
  /\ ad_loop.pc = "exited"
  /\ sinceStop.rotations = 1

\* C18: start() takes its steps in a fixed order: HAProxy is launched only
\* after start_all returned with a worker up, the monitoring server and the
\* two threads are started only after HAProxy's start succeeded, and
\* proxy-stack.pid is written last, so that a proxy-stack.pid written by
\* start() means that this start() returned 0.
C18_StartOrder ==
  /\ [][/\ (orch'.pc = "haproxy_start" /\ orch.pc # "haproxy_start") =>
             (orch.pc = "start_all" /\ orch.i = instance_count /\ orch.ok_count > 0)
        /\ (LaunchedPid(HAProxy) \in launched' \ launched) => orch.pc = "haproxy_start"
        /\ (orch'.pc = "services" /\ orch.pc # "services") =>
             (orch.pc = "haproxy_start" /\ PidFileSaysUp(HAProxy))
        /\ \/ monitoring' # monitoring /\ orch.op = "start" /\ ~orch.rollback
           \/ hc_thread' /\ ~hc_thread
           \/ ad_thread' /\ ~ad_thread
           \/ stackpid' = Holds(OrchPid) /\ stackpid # Holds(OrchPid)
           => orch.pc = "services"]_vars
  /\ [](stackpid = Holds(OrchPid) =>
          (orch.op = "start" /\ orch.pc = "done" /\ orch.ret = 0))

\* C19: start_all attempts every instance and returns True when at least one
\* start_instance returned True, and start() then goes on to HAProxy; when
\* none did, HAProxy is never launched and start() returns 1.
C19_PartialSuccess ==
  /\ [][/\ (orch.pc = "start_all" /\ orch'.pc # "start_all") =>
             /\ orch.i = instance_count
             /\ orch.ok_count > 0 => orch'.pc = "haproxy_start"
             /\ orch.ok_count = 0 => orch'.none_up
        /\ orch.none_up => \A out \in HAProxyOutcomes : ~haproxy_start(out)]_vars
  /\ [](orch.none_up =>
          /\ LaunchedPid(HAProxy) \notin launched
          /\ orch.pc \in {"done", "raised"} => (orch.pc = "done" /\ orch.ret = 1))

\* C20: stop() takes its steps in the order monitoring server, health checker,
\* anti-detect engine, HAProxy, workers, proxy-stack.pid: a step has been
\* reached only when the steps before it have, no worker is stopped or
\* signalled before HAProxy's stop has returned, and proxy-stack.pid is removed
\* only when the stop of every process has been attempted.
C20_StopOrder ==
  orch.stopped =>
    /\ HealthCheckerStep \in attempted => MonitoringStep \in attempted
    /\ AntiDetectStep \in attempted => HealthCheckerStep \in attempted
    /\ (HAProxy \in attempted \/ orch.pc = "in_haproxy_stop") =>
         AntiDetectStep \in attempted
    /\ \A w \in Workers :
         (w \in attempted \/ (orch.pc = "in_stop_instance" /\ st.comp = w)) =>
           /\ HAProxy \in attempted
           /\ \A v \in Workers : v[2] < w[2] => v \in attempted
    /\ orch.pc = "in_haproxy_stop" => st.comp = HAProxy
    /\ (orch.pc \in {"in_haproxy_stop", "in_stop_instance"} /\ sigs # {}) =>
         (st.comp = HAProxy \/ HAProxy \in attempted)
    /\ PidFileStep \in attempted => attempted = StopSteps
    /\ orch.pc # "done" => PidFileStep \notin attempted

\* C20 witness: a stop() called from the command line has signalled the last
\* worker after HAProxy's stop returned, and has removed proxy-stack.pid.
C20_Witness ==
  /\ orch.op = "stop"
  /\ orch.pc = "done"
  /\ attempted = StopSteps
  /\ st.comp \in Workers
  /\ sigs # {}
  /\ stackpid = Absent

\* C21: stop() is idempotent.  A stop() called on a stack that is stopped
\* already (nothing was ever started, or an earlier stop() has returned) sends
\* no signal to any process and does not raise; when it has returned, no
\* proxy-stack.pid and no component PID file is left, neither background loop
\* runs, no monitoring server serves, and the call has returned 0.
C21_StopIdempotent ==
  orch.again =>
    /\ sigs = {}
    /\ orch.pc # "raised"
    /\ orch.pc = "done" =>
         /\ stackpid = Absent
         /\ \A c \in Components : pidfile[c] = Absent
         /\ ~hc_thread
         /\ ~ad_thread
         /\ monitoring # "serving"
         /\ orch.ret = 0
         /\ orch.stop_ret = 0

\* a third call, the second stop() after a start() that brought the stack up
\* and registered its backends, has returned
C21_Witness ==
  /\ orch.again
  /\ orch.pc = "done"
  /\ orch.calls = 3
  /\ hc_backends # <<>>

\* C22: with a pool of exactly one entry, every rotate_user_agent() returns
\* that entry without raising, and the entry is the current identity before
\* and after the call.
C22_SingleEntryPool ==
  Len(ua_pool) = 1 =>
    /\ current_ua = ua_pool[1]
    /\ uaLast.op = "rotate" =>
         /\ ~uaLast.raised
         /\ uaLast.ret = ua_pool[1]
         /\ uaLast.before = ua_pool[1]

\* rotate_user_agent() has returned on a pool of one entry
C22_Witness ==
  /\ Len(ua_pool) = 1
  /\ uaLast.op = "rotate"
  /\ uaLast.ret = ua_pool[1]

\* a pool file of blank and comment lines only
OnlyBlankOrComment(file) ==
  \A i \in 1..Len(file) : Strip(file[i]) = <<>> \/ Head(file[i]) = "#"

\* C23: a pool file of blank and comment lines only loads the empty pool;
\* with an empty pool the current identity is the empty string after
\* construction, and rotate_user_agent() returns the empty string, does not
\* raise, and leaves the current identity as it was.
C23_EmptyPool ==
  ua_pool = <<>> =>
    /\ current_ua = <<>>
    /\ uaLast.op = "none" =>
         \A file \in Files : OnlyBlankOrComment(file) => LoadPool(file) = <<>>
    /\ uaLast.op = "rotate" =>
         /\ ~uaLast.raised
         /\ uaLast.ret = <<>>
         /\ uaLast.before = <<>>

\* rotate_user_agent() has returned on an empty pool, which a file of one
\* comment line and one blank line loads
C23_Witness ==
  /\ ua_pool = <<>>
  /\ ua_pool = LoadPool(<< <<"#", "a">>, <<" ">> >>)
  /\ uaLast.op = "rotate"
  /\ ~uaLast.raised

\* C24: a reload() that finds the load balancer's PID file missing, holding
\* no integer, or holding the PID of no live process returns False, has not
\* run the haproxy binary and has started no process.
C24_ReloadNeedsLiveProcess ==
  (reloaded.op = "reload" /\ reloaded.pre \in {"absent", "garbage", "dead"}) =>
    /\ ~reloaded.raised
    /\ ~reloaded.ret
    /\ ~reloaded.invoked
    /\ ReloadedPid \notin procs

\* C25: when the stop of a component with a PID on record has returned True,
\* the process of that PID is not alive; it has returned False only after
\* the SIGKILL was sent.
C25_StopTrueMeansDead ==
  (st.pc = "ret" /\ st.pid # {}) =>
    /\ st.ret => StPid \notin procs
    /\ ~st.ret => \E s \in sigs : s[1] = StPid /\ s[2] = "KILL"

(***************************************************************************)
(* Claims about threads and locks                                          *)
(***************************************************************************)
\* C26: a thread that is inside a TCP probe, a process signal or liveness
\* poll, or a wait holds none of the three locks, and no thread holds two of
\* the three locks at once.
C26_NoLockAcrossBlocking ==
  \A t \in Threads :
    /\ Blocking(t) => Held(t) = {}
    /\ Cardinality(Held(t)) <= 1

\* one thread is inside a probe while another updates the record of the
\* same backend under the lock of the health checker
C26_Witness ==
  \E t, u \in Threads :
    /\ thr[t].op = "check" /\ StepOf(t) = "probe_socks"
    /\ thr[u].op = "check" /\ StepOf(u) = "update"
    /\ Held(u) = {"health"}
    /\ Held(t) = {}

\* the loop of the engine is inside cleanup(), holding the lock of the
\* limiter alone, after its rotation
C26_LoopHoldsOneLock ==
  \E t \in Threads :
    /\ thr[t].op = "cycle" /\ StepOf(t) = "sweep"
    /\ Held(t) = {"rl"}

\* the thread is between the acquire and the release of allow() or cleanup()
InsideLimiter(t) == thr[t].op \in {"allow", "cleanup"} /\ thr[t].i > 1

\* the allow(ip) calls that returned True since the clock last moved
Trues(ip) == IF ip = "" THEN globalRun ELSE allowedAt[ip][now]

\* C27: calls of allow() on one key are serialized: no two threads are inside
\* the limiter at once, and of the calls on a key made while no time passes
\* at most floor(n) return True, n being the tokens the bucket of the key had
\* to give.
C27_AllowSerialized ==
  /\ \A t, u \in Threads : (InsideLimiter(t) /\ InsideLimiter(u)) => t = u
  /\ \A ip \in Ips : Trues(ip) * TokenUnit <= avail[ip]

\* C28: with a non-empty pool, a read of current_user_agent returns a member
\* of the pool that was the current value at some instant between the
\* beginning and the return of the read.
C28_ReadSeesCurrent ==
  \A t \in Threads :
    (last[t].op = "read" /\ ua_pool # <<>>) =>
      /\ last[t].ret \in Range(ua_pool)
      /\ last[t].ret \in last[t].seen

\* a read has returned during which a rotation changed the current value
C28_Witness ==
  \E t \in Threads :
    /\ last[t].op = "read"
    /\ Cardinality(last[t].seen) >= 2
    /\ last[t].ret \in last[t].seen

\* C29: the loop of the engine calls cleanup() of its limiter on the turns
\* 5, 10, 15, ... of the loop and on no other turn, and makes no call of it
\* once it has seen the stop event set and left the loop.
C29_CleanupEveryFifthCycle ==
  /\ [](ad_loop.cleaned =
          {c \in 1..ad_loop.cycle : c < MaxCycles /\ c % CleanupEvery = 0})
  /\ [][(ad_loop.pc \in {"exited", "dead", "none"} /\ ad_loop'.pc = ad_loop.pc) =>
          (ad_loop'.cleaned = ad_loop.cleaned /\ per_ip' = per_ip /\ rlRemoved' = rlRemoved)]_vars

\* the loop has called cleanup() on its fifth and on its tenth turn and has
\* left after the stop event was set
C29_Witness ==
  /\ ad_loop.cleaned = {5, 10}
  /\ ad_loop.pc = "exited"
  /\ ad_stop

\* C30: after setup_signals(), a process to which SIGTERM or SIGINT was
\* delivered (during start(), after start() returned, or in the foreground
\* loop) has not exited before the stop() its handler called for the last
\* signal delivered ran to its return.
C30_SignalRunsStop ==
  (main.pc = "exited" /\ main.signals > 0) => main.handled

(***************************************************************************)
(* The reference token-bucket step, and the claims of the last group       *)
(***************************************************************************)
\* the tokens the reference step starts from: the stored ones, `burst` for a
\* key with no bucket
ReferenceTokens(key) ==
  IF key \in DOMAIN per_ip THEN per_ip[key].tokens ELSE burst * TokenUnit

\* the time the reference step refills for: since the stored timestamp, 0 for
\* a key with no bucket
ReferenceElapsed(key) ==
  IF key \in DOMAIN per_ip THEN now - per_ip[key].last ELSE 0

ReferenceRefilled(key) ==
  LET sum == ReferenceTokens(key) + ReferenceElapsed(key) * rate
  IN  IF sum > burst * TokenUnit THEN burst * TokenUnit ELSE sum

\* C31: allow(key) on a non-empty key takes the reference step: with
\* refilled = min(burst, stored + elapsed * rate) (burst and elapsed 0 for a
\* key with no bucket) it returns True and stores (refilled - 1, now) when
\* refilled >= 1, and returns False and stores (refilled, now) otherwise.
C31_ReferenceStep ==
  [][\A key \in Ips \ {""} :
       Allow(key) =>
         LET refilled == ReferenceRefilled(key)
             returned == allowedAt'[key][now] = allowedAt[key][now] + 1
         IN  /\ returned <=> refilled >= TokenUnit
             /\ ~returned => allowedAt' = allowedAt
             /\ key \in DOMAIN per_ip'
             /\ per_ip'[key] = [tokens |-> IF refilled >= TokenUnit
                                           THEN refilled - TokenUnit ELSE refilled,
                                last |-> now]]_vars

\* C31 witness: a call was denied at this tick and has stored the half token
\* of its partial refill with the new timestamp.
C31_Witness ==
  \E key \in DOMAIN per_ip :
    /\ now >= 1
    /\ allowedAt[key][now] = 0
    /\ per_ip[key].last = now
    /\ per_ip[key].tokens > 0
    /\ per_ip[key].tokens < TokenUnit

\* C32: what a get_health_summary() or get_metrics() call made while checks
\* run reports of a backend is the record as one completed check (or the
\* registration) had left it when the call read it: `healthy` is true iff
\* both probes of that check succeeded, and the flags and the counter
\* reported together are those of that one check.
C32_SummarySeesOneCheck ==
  \A t \in Threads :
    (thr[t].op = "summary" /\ StepOf(t) = "release_health") =>
      \A e \in thr[t].loc[2] :
        /\ e[2].healthy <=> (e[2].http_alive /\ e[2].socks_alive)
        /\ \E s \in thr[t].loc[3] :
             /\ s[1] = e[1]
             /\ s[2].http_alive = e[2].http_alive
             /\ s[2].socks_alive = e[2].socks_alive
             /\ s[2].consecutive_failures = e[2].consecutive_failures

\* C32 witness: a summary reports the second failed check of a backend while
\* the next check of the backend, its probes done, waits for the lock.
C32_Witness ==
  \E t, u \in Threads :
    /\ thr[t].op = "summary" /\ StepOf(t) = "release_health"
    /\ thr[u].op = "check" /\ StepOf(u) = "acquire_health"
    /\ \E e \in thr[t].loc[2] : e[2].consecutive_failures = 2 /\ ~e[2].healthy

\* C33: get_health_summary() reports `down` whenever no backend is healthy:
\* with no backend registered, with backends registered and not yet checked,
\* and with a minimum of 0; `healthy` and `degraded` are reported only with
\* at least one healthy backend.
C33_DownWhenNoneHealthy ==
  /\ (\A n \in DOMAIN hc_backends :
        ~(hc_backends[n].http_alive /\ hc_backends[n].socks_alive))
       => (HealthSummary.status = "down" /\ HealthSummary.healthy_backends = 0)
  /\ HealthSummary.status \in {"healthy", "degraded"} =>
       \E n \in DOMAIN hc_backends : hc_backends[n].http_alive /\ hc_backends[n].socks_alive

\* C33 witness: the minimum is 0, two backends are registered, one has failed
\* a check on one port and the other was never checked: `down`.
C33_Witness ==
  /\ min_healthy = 0
  /\ HealthSummary.status = "down"
  /\ HealthSummary.total_backends = 2
  /\ \E n, k \in DOMAIN hc_backends :
       /\ hc_backends[n].consecutive_failures = 1
       /\ hc_backends[n].http_alive /\ ~hc_backends[n].socks_alive
       /\ hc_backends[k] = NewBackend

\* C34: with cleanup() calls of the default max_age interleaved with the
\* allow() calls, the allow(key) calls returning True inside any window of
\* length T = t2 - t1 still number at most ceil(burst + rate * T), for every
\* non-empty key, whether a cleanup() has removed its bucket or not.
C34_BoundWithCleanup ==
  \A ip \in Ips \ {""} :
    \A t1 \in 0..MaxTime : \A t2 \in t1..MaxTime :
      WindowCount(ip, t1, t2) <= CeilTokens(burst * TokenUnit + rate * (t2 - t1))

\* C35: whatever start() and stop() calls are made on a health checker, a
\* stop() whose join timed out during a check included, a thread created
\* before a stop() does not go on polling beside the thread of a later
\* start(): at most one thread is polling at any time.
C35_OnePollingThread ==
  ~(HealthRunning /\ OrphanRunning /\ hc_loop.orphan.resumed)

\* C36: in the foreground loop of main(), the step that gives up (stops the
\* stack, return 1) is taken only when every registered backend has failed a
\* completed health check: never while a registered backend is still
\* waiting for the first check of the first polling cycle to complete.
C36_GivesUpAfterFailedChecks ==
  [][watchdog_gives_up =>
       \A n \in DOMAIN hc_backends : hc_backends[n].consecutive_failures >= 1]_vars

\* C37: a start of a worker (start_instance) or of the load balancer counts
\* as a success only when the live PID read from the PID file is the PID of
\* the daemon launched by that same call; a PID file left by an earlier run
\* that names a live process never makes the launch count as a success.
C37_StartReadsOwnPid ==
  [][/\ (orch.pc = "start_all" /\ orch'.pc = "start_all" /\ orch'.ok_count = orch.ok_count + 1)
          => LET c == <<"3proxy", orch.i>>
             IN  /\ pidfile'[c] = Holds(LaunchedPid(c))
                 /\ LaunchedPid(c) \in procs' \ procs
     /\ (orch.pc = "haproxy_start" /\ orch'.pc = "services")
          => /\ pidfile'[HAProxy] = Holds(LaunchedPid(HAProxy))
             /\ LaunchedPid(HAProxy) \in procs' \ procs]_vars

\* C38: stop_process_by_pid calls os.kill(pid, 9) only after a SIGTERM that
\* found the process alive and timeout * 10 polls that all found it alive,
\* and only on a process that has not exited since: a process that exits
\* during the grace period, the sleep after the last poll included, gets no
\* SIGKILL call, and the stop returns True for it.
C38_NoKillAfterExit ==
  \A p \in st.pid :
    /\ \A delivered \in BOOLEAN :
         <<p, "KILL", delivered>> \in sigs =>
           /\ <<p, "TERM", TRUE>> \in sigs
           /\ st.polls = GracePolls
           /\ delivered
    /\ (st.pc = "ret" /\ <<p, "TERM", TRUE>> \in sigs /\ <<p, "KILL", TRUE>> \notin sigs)
         => st.ret

\* C39: an alert callback that calls get_health_summary() or get_metrics()
\* on the monitor, from the polling thread inside _fire_alert, is never
\* blocked on the monitor's lock, and the summary it gets reports the backend
\* of the alert with consecutive_failures = 3 and with the liveness of the two
\* ports as the check that raised the alert probed them.
C39_CallbackReadsSummary ==
  \A t \in Threads :
    /\ StepOf(t) = "callback_acquire" => CanAcquire(t, "health")
    /\ StepOf(t) = "callback_release" =>
         \E e \in thr[t].loc[4] :
           /\ e[1] = thr[t].name
           /\ e[2].consecutive_failures = AlertThreshold
           /\ e[2].http_alive = thr[t].loc[1]
           /\ e[2].socks_alive = thr[t].loc[2]
           /\ ~e[2].healthy

\* C39 witness: the callback of the third failed check of a backend, the
\* HTTP port answering and the SOCKS port not, has its summary, while another
\* thread waits for the lock with the results of its own check.
C39_Witness ==
  \E t, u \in Threads :
    /\ StepOf(t) = "callback_release"
    /\ thr[t].loc[1] /\ ~thr[t].loc[2]
    /\ locks["health"] = t
    /\ Depth(t, "health") = 2
    /\ thr[u].op = "check" /\ StepOf(u) = "acquire_health"

\* C40: a call allow(k) leaves every bucket but that of k as it was: the
\* tokens and the timestamp of the bucket of any other key are unchanged, and
\* no bucket of another key is created or removed.
C40_AllowTouchesOwnBucket ==
  [][\A k \in Ips :
       Allow(k) =>
         \A j \in Ips \ {k} :
           /\ j \in DOMAIN per_ip' <=> j \in DOMAIN per_ip
           /\ j \in DOMAIN per_ip => per_ip'[j] = per_ip[j]]_vars

\* C40 witness: allow(k) has just stored the bucket of k while the bucket of
\* another key, last touched at an earlier tick, is still as it was left.
C40_Witness ==
  \E j, k \in DOMAIN per_ip :
    /\ j # k
    /\ per_ip[k].last = now
    /\ per_ip[j].last < now
    /\ per_ip[j].tokens < burst * TokenUnit

====
